---- MODULE Spec2Model ----
(***************************************************************************)
(* A model of the multi-agent trading pipeline: the risk agent's position  *)
(* sizing, risk assessment and decision (agents/risk_agent.py), the        *)
(* execution agent's order placement (agents/execution_agent.py) and the   *)
(* coordinator's workflows, watchlist scan and communication log           *)
(* (agents/agent_coordinator.py).                                          *)
(*                                                                         *)
(* Units.  Money (cash, portfolio value, market values, dollar amounts) is *)
(* in cents and a price is in cents per share; a confidence is in          *)
(* hundredths (75 is 0.75); price_change_pct is in tenths of a percent (12 *)
(* is 1.2 %).  A fraction is a record [n, d] with d > 0, in lowest terms,  *)
(* compared by cross-multiplication, so the arithmetic of the definitions  *)
(* below is that of the real numbers.  The definitions whose names start   *)
(* with Fl repeat the sizing arithmetic in binary floating point, rounded  *)
(* to nearest-even after every operation as Python's float is.             *)
(***************************************************************************)
EXTENDS Integers, Sequences, FiniteSets, TLC

VARIABLES
    pc,                 \* where the running call is suspended ("idle": none)
    op,                 \* the running call: none, workflow, assess, execute
    cur_symbol,         \* its symbol argument
    scan_active,        \* scan_watchlist_with_risk_assessment is running
    scan_idx,           \* its position in the watchlist (1-based)
    results,            \* its results list
    communication_log,  \* AgentCoordinator.communication_log
    log_base,           \* Len(communication_log) when the running call began
    cash,               \* RiskAgent.cash
    portfolio_value,    \* RiskAgent.portfolio_value
    positions,          \* RiskAgent.positions: symbol -> market_value
    fetch,              \* the branch _update_portfolio_state took in this call
    market_analysis,    \* what analyze_stock returned
    position_analysis,  \* what _calculate_position_size returned
    risk_assessment,    \* what _assess_portfolio_risk computed
    decision,           \* what _make_risk_decision returned
    execution_result,   \* what execute_approved_trade returned
    result,             \* what the last finished call returned
    submit_calls,       \* every call of trading_client.submit_order, in order
    calls               \* the evaluate_trade_signal calls made side by side
                        \* on the one RiskAgent: call -> its locals

vars == <<pc, op, cur_symbol, scan_active, scan_idx, results,
          communication_log, log_base, cash, portfolio_value, positions,
          fetch, market_analysis, position_analysis, risk_assessment,
          decision, execution_result, result, submit_calls, calls>>

-----------------------------------------------------------------------------
(* Arithmetic *)

Abs(x) == IF x < 0 THEN -x ELSE x

MinInt(a, b) == IF b < a THEN b ELSE a

MaxInt(a, b) == IF b > a THEN b ELSE a

RECURSIVE Gcd(_, _)
Gcd(a, b) == IF b = 0 THEN a ELSE Gcd(b, a % b)

\* The fraction n/d (d > 0) in lowest terms.
Frac(n, d) ==
    LET g == Gcd(Abs(n), d)
    IN  [n |-> n \div g, d |-> d \div g]

FLess(a, b) == a.n * b.d < b.n * a.d

FLeq(a, b) == a.n * b.d <= b.n * a.d

\* Python's min and max of two numbers: the first one wins a tie.
FMin(a, b) == IF FLess(b, a) THEN b ELSE a

FMax(a, b) == IF FLess(a, b) THEN b ELSE a

FDiv(a, b) == Frac(a.n * b.d, a.d * b.n)

\* int(n / d) for d > 0: Python's int() truncates toward zero.
IntTrunc(n, d) == IF n >= 0 THEN n \div d ELSE -((-n) \div d)

-----------------------------------------------------------------------------
(* RiskAgent.__init__: the risk parameters *)

max_portfolio_risk == Frac(2, 100)

max_position_size == Frac(1, 10)

initial_capital == 10000000

-----------------------------------------------------------------------------
(* RiskAgent._calculate_position_size and _estimate_volatility *)

\* Method 1: win_rate = min(confidence, 0.9) and
\* (win_rate * 0.15 - (1 - win_rate) * 0.08) / 0.15, clipped to [0, 0.25].
KellyFraction(confidence) ==
    LET win_rate == MinInt(confidence, 90)
        kelly    == Frac(win_rate * 15 - (100 - win_rate) * 8, 1500)
    IN  FMax(Frac(0, 1), FMin(kelly, Frac(25, 100)))

\* abs(price_change_pct) / 100.0
EstimateVolatility(price_change_pct) == Frac(Abs(price_change_pct), 1000)

\* Method 2: max_portfolio_risk / max(volatility, 0.01)
VolAdjustedSize(price_change_pct) ==
    FDiv(max_portfolio_risk,
         FMax(EstimateVolatility(price_change_pct), Frac(1, 100)))

\* Method 3: confidence * max_position_size
ConfidenceSize(confidence) ==
    Frac(confidence * max_position_size.n, 100 * max_position_size.d)

\* The minimum without the confidence method.
OptimalFractionOfTwo(kelly, vol, conf) == FMin(kelly, vol)

\* min(kelly_fraction, vol_adjusted_size, confidence_size)
OptimalFraction(kelly, vol, conf) == FMin(FMin(kelly, vol), conf)

\* int(dollar_amount / price) with dollar_amount = portfolio_value * fraction
SharesFor(pv, fraction, price) == IntTrunc(pv * fraction.n, fraction.d * price)

\* The sizing result; "RAISED" stands for the ZeroDivisionError of
\* actual_dollar_amount / self.portfolio_value when the portfolio value is 0.
CalculatePositionSize(signal, confidence, price, price_change_pct, pv) ==
    IF signal = "HOLD"
    THEN [method |-> "HOLD", shares |-> 0, dollar_amount |-> 0,
          portfolio_percentage |-> Frac(0, 1)]
    ELSE LET kelly  == KellyFraction(confidence)
             vol    == VolAdjustedSize(price_change_pct)
             conf   == ConfidenceSize(confidence)
             opt    == OptimalFraction(kelly, vol, conf)
             shares == SharesFor(pv, opt, price)
             actual == shares * price
         IN  IF pv = 0
             THEN [method |-> "RAISED"]
             ELSE [method |-> "KELLY_VOLATILITY_CONFIDENCE",
                   kelly_fraction |-> kelly,
                   volatility_fraction |-> vol,
                   confidence_fraction |-> conf,
                   optimal_fraction |-> opt,
                   shares |-> shares,
                   dollar_amount |-> actual,
                   portfolio_percentage |-> Frac(actual, pv),
                   price |-> price]

-----------------------------------------------------------------------------
(* RiskAgent._assess_portfolio_risk, up to the advisory opinion *)

RECURSIVE SumAbsValues(_, _)
SumAbsValues(pos, syms) ==
    IF syms = {} THEN 0
    ELSE LET s == CHOOSE x \in syms : TRUE
         IN  Abs(pos[s]) + SumAbsValues(pos, syms \ {s})

\* self.positions.get(symbol, {}).get("market_value", 0)
CurrentPositionValue(pos, symbol) ==
    IF symbol \in DOMAIN pos THEN pos[symbol] ELSE 0

\* The factors with the utilization flagged from 0.8 on.
RiskFactorsFromLimit(concentration_risk, portfolio_risk_breach, sufficient_cash, util) ==
    (IF concentration_risk THEN <<"position_concentration">> ELSE <<>>)
    \o (IF portfolio_risk_breach THEN <<"portfolio_risk_limit">> ELSE <<>>)
    \o (IF ~sufficient_cash THEN <<"insufficient_cash">> ELSE <<>>)
    \o (IF ~FLess(util, Frac(8, 10))
        THEN <<"high_portfolio_utilization">> ELSE <<>>)

RiskFactors(concentration_risk, portfolio_risk_breach, sufficient_cash, util) ==
    (IF concentration_risk THEN <<"position_concentration">> ELSE <<>>)
    \o (IF portfolio_risk_breach THEN <<"portfolio_risk_limit">> ELSE <<>>)
    \o (IF ~sufficient_cash THEN <<"insufficient_cash">> ELSE <<>>)
    \o (IF FLess(Frac(8, 10), util)
        THEN <<"high_portfolio_utilization">> ELSE <<>>)

\* The level with MEDIUM from one factor on.
RiskLevelFromOneFactor(risk_score) ==
    IF FLess(Frac(6, 10), risk_score) THEN "HIGH"
    ELSE IF FLess(Frac(2, 10), risk_score) THEN "MEDIUM" ELSE "LOW"

RiskLevel(risk_score) ==
    IF FLess(Frac(6, 10), risk_score) THEN "HIGH"
    ELSE IF FLess(Frac(3, 10), risk_score) THEN "MEDIUM" ELSE "LOW"

\* The assessment made before the sizing has produced its output: of no new
\* position.
AssessPortfolioRiskUnsized(symbol, pa, c, pv, pos) ==
    IF pv = 0
    THEN [status |-> "RAISED"]
    ELSE LET position_concentration ==
                 Frac(Abs(CurrentPositionValue(pos, symbol)), pv)
             concentration_risk ==
                 FLess(max_position_size, position_concentration)
             util == Frac(SumAbsValues(pos, DOMAIN pos), pv)
             risk_factors == RiskFactors(concentration_risk, FALSE, 0 <= c,
                                         util)
             risk_score == Frac(Len(risk_factors), 4)
         IN  [status |-> "OK",
              position_concentration |-> position_concentration,
              concentration_risk |-> concentration_risk,
              portfolio_risk_breach |-> FALSE,
              sufficient_cash |-> 0 <= c,
              cash_needed |-> 0,
              available_cash |-> c,
              portfolio_utilization |-> util,
              risk_factors |-> risk_factors,
              risk_score |-> risk_score,
              risk_level |-> RiskLevel(risk_score)]

\* "RAISED" stands for the ZeroDivisionError of the divisions by
\* self.portfolio_value when it is 0.
AssessPortfolioRisk(symbol, pa, c, pv, pos) ==
    IF pv = 0
    THEN [status |-> "RAISED"]
    ELSE LET current_position_value == CurrentPositionValue(pos, symbol)
             new_position_value     == pa.dollar_amount
             total_position_value   ==
                 Abs(current_position_value) + Abs(new_position_value)
             position_concentration == Frac(total_position_value, pv)
             concentration_risk     ==
                 FLess(max_position_size, position_concentration)
             portfolio_risk_breach  ==
                 FLess(max_portfolio_risk, pa.portfolio_percentage)
             sufficient_cash        == new_position_value <= c
             util == Frac(SumAbsValues(pos, DOMAIN pos), pv)
             risk_factors == RiskFactors(concentration_risk,
                                 portfolio_risk_breach, sufficient_cash, util)
             risk_score == Frac(Len(risk_factors), 4)
         IN  [status |-> "OK",
              position_concentration |-> position_concentration,
              concentration_risk |-> concentration_risk,
              portfolio_risk_breach |-> portfolio_risk_breach,
              sufficient_cash |-> sufficient_cash,
              cash_needed |-> new_position_value,
              available_cash |-> c,
              portfolio_utilization |-> util,
              risk_factors |-> risk_factors,
              risk_score |-> risk_score,
              risk_level |-> RiskLevel(risk_score)]

-----------------------------------------------------------------------------
(* RiskAgent._make_risk_decision *)

\* The criteria reporting the first one that is met and no other.
RejectionReasonsFirstOnly(ra) ==
    IF ~ra.sufficient_cash THEN <<"Insufficient cash">>
    ELSE IF ra.concentration_risk
         THEN <<"Position concentration limit exceeded">>
         ELSE IF FLess(Frac(8, 10), ra.risk_score)
              THEN <<"Risk score too high">> ELSE <<>>

\* The criteria with the risk score rejected from above 0.4 on.
RejectionReasonsLowScore(ra) ==
    (IF ~ra.sufficient_cash THEN <<"Insufficient cash">> ELSE <<>>)
    \o (IF ra.concentration_risk
        THEN <<"Position concentration limit exceeded">> ELSE <<>>)
    \o (IF FLess(Frac(4, 10), ra.risk_score)
        THEN <<"Risk score too high">> ELSE <<>>)

\* The automatic rejection criteria, in the order of the code.
RejectionReasons(ra) ==
    (IF ~ra.sufficient_cash THEN <<"Insufficient cash">> ELSE <<>>)
    \o (IF ra.concentration_risk
        THEN <<"Position concentration limit exceeded">> ELSE <<>>)
    \o (IF FLess(Frac(8, 10), ra.risk_score)
        THEN <<"Risk score too high">> ELSE <<>>)

\* The automatic rejection without its cash criterion.
AutoRejectIgnoringCash(ra) ==
    ra.concentration_risk \/ FLess(Frac(8, 10), ra.risk_score)

AutoReject(ra) == RejectionReasons(ra) # <<>>

NoReasons == <<>>

\* The reasoning of a decision that quotes no opinion: its text is fixed by
\* the action and the reasons.
NoOpinion == <<>>

\* A decision is a record of one shape: a key the code's dict lacks holds what
\* the readers' .get(key, default) makes of it (no reasons, 0, "NONE").
HoldDecision ==
    [action |-> "HOLD", approved |-> FALSE, rejection_reasons |-> NoReasons,
     position_size |-> 0, dollar_amount |-> 0,
     portfolio_percentage |-> Frac(0, 1), risk_level |-> "NONE",
     reasoning |-> NoOpinion]

RejectDecision(reasons) ==
    [action |-> "REJECT", approved |-> FALSE, rejection_reasons |-> reasons,
     position_size |-> 0, dollar_amount |-> 0,
     portfolio_percentage |-> Frac(0, 1), risk_level |-> "NONE",
     reasoning |-> NoOpinion]

\* An opinion text is a sequence of characters.  str.upper() on the letters
\* the texts of the model use.
UpperChar(ch) ==
    CASE ch = "a" -> "A" [] ch = "p" -> "P" [] ch = "r" -> "R"
      [] ch = "o" -> "O" [] ch = "v" -> "V" [] ch = "e" -> "E"
      [] ch = "j" -> "J" [] ch = "c" -> "C" [] ch = "t" -> "T"
      [] ch = "n" -> "N" [] OTHER -> ch

Upper(text) == [i \in 1..Len(text) |-> UpperChar(text[i])]

\* needle in text
Contains(text, needle) ==
    \E i \in 0..(Len(text) - Len(needle)) :
        \A j \in 1..Len(needle) : text[i + j] = needle[j]

APPROVE == <<"A", "P", "P", "R", "O", "V", "E">>

\* approved = "APPROVE" in ai_decision.upper()
ParseApproved(ai_decision) == Contains(Upper(ai_decision), APPROVE)

\* The decision without the early return on a HOLD signal.
DecisionIgnoringHold(signal, ra) ==
    IF AutoReject(ra) THEN RejectDecision(RejectionReasons(ra))
    ELSE [action |-> "ARBITRATE"]

\* The decision when the arbitration opinion is not asked for, or
\* "ARBITRATE" when it is.
DecisionBeforeOpinion(signal, ra) ==
    IF signal = "HOLD" THEN HoldDecision
    ELSE IF AutoReject(ra) THEN RejectDecision(RejectionReasons(ra))
    ELSE [action |-> "ARBITRATE"]

\* The parsed decision with the level the reader's default gives.
DecisionFromOpinionDefaultLevel(ai_decision, pa, ra) ==
    LET approved == ParseApproved(ai_decision)
    IN  [action |-> IF approved THEN "APPROVE" ELSE "REJECT",
         approved |-> approved,
         rejection_reasons |-> NoReasons,
         position_size |-> pa.shares,
         dollar_amount |-> pa.dollar_amount,
         portfolio_percentage |-> pa.portfolio_percentage,
         risk_level |-> "MEDIUM",
         reasoning |-> ai_decision]

\* The decision parsed from the arbitration opinion.
DecisionFromOpinion(ai_decision, pa, ra) ==
    LET approved == ParseApproved(ai_decision)
    IN  [action |-> IF approved THEN "APPROVE" ELSE "REJECT",
         approved |-> approved,
         rejection_reasons |-> NoReasons,
         position_size |-> pa.shares,
         dollar_amount |-> pa.dollar_amount,
         portfolio_percentage |-> pa.portfolio_percentage,
         risk_level |-> ra.risk_level,
         reasoning |-> ai_decision]

-----------------------------------------------------------------------------
(* RiskAgent.evaluate_trade_signal: the check of its input *)

\* The check without the one of the symbol.
InvalidSignalIgnoringSymbol(symbol, m) == m.price = 0

\* if not symbol or not price
InvalidSignal(symbol, m) == symbol = "" \/ m.price = 0

-----------------------------------------------------------------------------
(* RiskAgent._update_portfolio_state *)

\* The state the try block leaves when the brokerage answers as b says:
\* get_all_positions raises before anything is assigned, a position's fields
\* fail to convert after self.positions was emptied, get_account raises
\* after the positions were stored, or account.portfolio_value fails to
\* convert after the cash was stored.
TryUpdate(state, b) ==
    CASE b.kind = "fail_positions" -> state
      [] b.kind = "fail_parse" -> [state EXCEPT !.positions = <<>>]
      [] b.kind = "fail_account" ->
            [state EXCEPT !.positions = b.snap.positions]
      [] b.kind = "fail_value" ->
            [state EXCEPT !.positions = b.snap.positions,
                          !.cash = b.snap.cash]
      [] OTHER -> b.snap

\* The except branch without the reset of the positions.
ExceptBranchKeepingPositions(partial) ==
    [partial EXCEPT !.cash = initial_capital,
                    !.portfolio_value = initial_capital]

\* The except branch: mock data, whatever the try block had stored.
ExceptBranch(partial) ==
    [positions |-> <<>>, cash |-> initial_capital,
     portfolio_value |-> initial_capital]

UpdatePortfolioState(state, b) ==
    IF b.kind = "ok" THEN TryUpdate(state, b)
    ELSE ExceptBranch(TryUpdate(state, b))

-----------------------------------------------------------------------------
(* ExecutionAgent.execute_approved_trade, up to the order *)

\* What execute_approved_trade reads of its argument: the keys symbol,
\* original_signal and approved (top level) and the nested decision.
RiskEvaluation(symbol, signal, d) ==
    [symbol |-> symbol, original_signal |-> signal, top_approved |-> FALSE,
     decision |-> [approved |-> d.approved,
                   position_size |-> d.position_size]]

\* The checks without the one of the approval.
ExecutionCheckWithoutApproval(rd) ==
    IF rd.symbol = "" \/ rd.decision.position_size <= 0
       \/ rd.original_signal = "HOLD"
    THEN "NO_ACTION"
    ELSE "PLACE"

\* The checks without the one of the position size.
ExecutionCheckWithoutSize(rd) ==
    IF ~(rd.top_approved \/ rd.decision.approved) THEN "REJECTED"
    ELSE IF rd.symbol = "" \/ rd.original_signal = "HOLD"
         THEN "NO_ACTION"
         ELSE "PLACE"

\* "REJECTED", "NO_ACTION", or "PLACE" when the order is to be placed.
\* _get_current_price returns a mock price or 100.0, never a false value, so
\* the "Unable to get current price" return is not reachable.
ExecutionCheck(rd) ==
    IF ~(rd.top_approved \/ rd.decision.approved) THEN "REJECTED"
    ELSE IF rd.symbol = "" \/ rd.decision.position_size <= 0
            \/ rd.original_signal = "HOLD"
         THEN "NO_ACTION"
         ELSE "PLACE"

OrderSide(signal) == IF signal = "BUY" THEN "buy" ELSE "sell"

\* The arguments of _place_market_order when it calls submit_order, and
\* whether the brokerage accepted the order.
SubmitCall(rd, accepted) ==
    [symbol |-> rd.symbol, quantity |-> rd.decision.position_size,
     side |-> OrderSide(rd.original_signal), context |-> rd,
     accepted |-> accepted]

-----------------------------------------------------------------------------
(* AgentCoordinator.log_communication *)

\* What the model keeps of a log entry: the agents, the message type and the
\* "symbol" key of the message ("N/A" when it has none).
LogEntry(from_agent, to_agent, message_type, symbol) ==
    [from_agent |-> from_agent, to_agent |-> to_agent,
     message_type |-> message_type, symbol |-> symbol]

\* The entry put in front of the log.
LogCommunicationInFront(log, entry) == <<entry>> \o log

\* self.communication_log.append(log_entry)
LogCommunication(log, entry) == Append(log, entry)

TradingSignalEntry(symbol, m) ==
    LogEntry("market_agent", "risk_agent", "TRADING_SIGNAL", symbol)

\* full_trading_workflow addresses the decision to the execution agent,
\* analyze_and_assess_symbol back to the market agent.
RiskDecisionEntry(o, d) ==
    LogEntry("risk_agent",
             IF o = "workflow" THEN "execution_agent" ELSE "market_agent",
             "RISK_DECISION", "N/A")

ExecutionResultEntry(symbol, status) ==
    LogEntry("execution_agent", "reporting_agent", "EXECUTION_RESULT",
             symbol)

-----------------------------------------------------------------------------
(* The bounds of the model and what the collaborators may answer *)

\* MarketAgent.watchlist, of which the model scans the first WatchLen symbols.
FullWatchlist == <<"AAPL", "GOOGL", "MSFT", "TSLA", "NVDA">>

WatchLen == 2

Watchlist == SubSeq(FullWatchlist, 1, WatchLen)

Symbols == {Watchlist[i] : i \in 1..Len(Watchlist)}

\* The symbols full_trading_workflow is called on: it takes any string.
WorkflowSymbols == Symbols \cup {""}

\* A call may begin while the log is shorter than MaxLog and fewer than
\* MaxSubmits orders were sent.
MaxLog == 1

MaxSubmits == 1

\* An analysis as its readers read it; absent holds the keys it lacks.
Analysis(signal, confidence, price, price_change_pct) ==
    [status |-> "ok", signal |-> signal, confidence |-> confidence,
     price |-> price, price_change_pct |-> price_change_pct, absent |-> {}]

\* The analysis m when the oracle's JSON has no "signal" key: the readers'
\* .get('signal', 'HOLD') reads HOLD.
WithoutSignal(m) == [m EXCEPT !.signal = "HOLD", !.absent = {"signal"}]

\* What analyze_stock may return: an error, or an analysis whose signal and
\* confidence are whatever the oracle's JSON holds (HOLD and 0.5 when it
\* cannot be read), with the latest close as the price; a price of 0 is
\* also what .get('price', 0) reads when there is none.
MarketOutcomes ==
    { [status |-> "error"],
      Analysis("HOLD", 50, 21355, 12),
      Analysis("BUY", 75, 21355, 12),
      Analysis("SELL", 30, 21355, 12),
      Analysis("STRONG_BUY", 150, 21355, 12),
      Analysis("BUY", 75, 0, 12),
      WithoutSignal(Analysis("BUY", 75, 21355, 12)) }

Snapshot(c, pv, pos) == [positions |-> pos, cash |-> c, portfolio_value |-> pv]

\* The books the brokerage may report; the last are those of a fresh paper
\* account, which hold what the mock data of the except branch holds.
Snapshots ==
    { Snapshot(1000000, 10000000, ("AAPL" :> 200000)),
      Snapshot(500000, 10000000, ("AAPL" :> 9500000)),
      Snapshot(0, 0, <<>>),
      Snapshot(initial_capital, initial_capital, <<>>) }

BrokerOutcomes ==
    [kind : {"ok", "fail_positions", "fail_parse", "fail_account",
             "fail_value"},
     snap : Snapshots]

\* The texts an opinion may come back as.
OpinionTexts ==
    { <<"A", "P", "P", "R", "O", "V", "E">>,
      <<"R", "E", "J", "E", "C", "T">>,
      <<"a", "p", "p", "r", "o", "v", "e">>,
      <<"R", "E", "J", "E", "C", "T", " ", "n", "o", "t", " ",
        "a", "p", "p", "r", "o", "v", "e", "d">> }

\* What execute_approved_trade is handed when it is called directly: a risk
\* evaluation as evaluate_trade_signal returns it, with any decision, or a
\* flat decision that carries approved at the top level and no nested one.
DirectEvaluations ==
    { [symbol |-> s, original_signal |-> sig, top_approved |-> FALSE,
       decision |-> [approved |-> a, position_size |-> n]] :
          s \in {"AAPL"}, sig \in {"BUY"}, a \in BOOLEAN, n \in {0, 35} }
    \cup
    { [symbol |-> s, original_signal |-> "HOLD", top_approved |-> a,
       decision |-> [approved |-> FALSE, position_size |-> 0]] :
          s \in {"AAPL", ""}, a \in BOOLEAN }

-----------------------------------------------------------------------------
(* The values a call returns *)

NoValue == [status |-> "NONE"]

NoSizing == [method |-> "NONE"]

NoDecision ==
    [action |-> "NONE", approved |-> FALSE, rejection_reasons |-> NoReasons,
     position_size |-> 0, dollar_amount |-> 0,
     portfolio_percentage |-> Frac(0, 1), risk_level |-> "NONE",
     reasoning |-> NoOpinion]

\* What the model keeps of a returned dict: which return it is (kind and
\* stage), its "symbol" key ("N/A" when it has none), the decision in it, the
\* execution status and, of the risk evaluation of an approval, the available
\* cash of its risk assessment (0 otherwise).
Result(kind, stage, symbol, d, final_status) ==
    [kind |-> kind, stage |-> stage, symbol |-> symbol,
     action |-> d.action, approved |-> d.approved,
     position_size |-> d.position_size, dollar_amount |-> d.dollar_amount,
     available_cash |-> IF kind = "completed" /\ d.approved
                        THEN risk_assessment.available_cash ELSE 0,
     final_status |-> final_status]

NoResult == Result("NONE", "NONE", "N/A", NoDecision, "NONE")

\* {"error": "Market analysis failed: ..."} and {"error": "Risk evaluation
\* failed: ..."}
ErrorResult(stage) == Result("error", stage, "N/A", NoDecision, "NONE")

\* The workflow_result with the decision taken back when the execution did
\* not succeed.
CompletedResultRevoking(symbol, d, final_status) ==
    Result("completed", "done", symbol,
           IF final_status \in {"FAILED", "ERROR", "NO_ACTION"}
           THEN RejectDecision(NoReasons) ELSE d,
           final_status)

\* The workflow_result of full_trading_workflow and analyze_and_assess_symbol.
CompletedResult(symbol, d, final_status) ==
    Result("completed", "done", symbol, d, final_status)

\* The error_result of the scan's except branch.
ExceptionResult(symbol) ==
    Result("exception", "raised", symbol, NoDecision, "NONE")

-----------------------------------------------------------------------------
(* The state machine.  A call runs from one suspension point (an await that *)
(* waits for a collaborator) to the next in one step.                       *)

frameVars == <<fetch, market_analysis, position_analysis, risk_assessment,
               decision, execution_result>>

riskVars == <<cash, portfolio_value, positions>>

scanVars == <<scan_active, scan_idx, results>>

\* self.portfolio_value is first assigned by _update_portfolio_state: -1
\* stands for the attribute that does not exist yet.
Init ==
    /\ pc = "idle"
    /\ op = "none"
    /\ cur_symbol = ""
    /\ scan_active = FALSE
    /\ scan_idx = 0
    /\ results = <<>>
    /\ communication_log = <<>>
    /\ log_base = 0
    /\ cash = initial_capital
    /\ portfolio_value = -1
    /\ positions = <<>>
    /\ fetch = "none"
    /\ market_analysis = NoValue
    /\ position_analysis = NoSizing
    /\ risk_assessment = NoValue
    /\ decision = NoDecision
    /\ execution_result = NoValue
    /\ result = NoResult
    /\ submit_calls = <<>>
    /\ calls = <<>>

CanBegin ==
    /\ pc = "idle"
    /\ ~scan_active
    /\ Len(communication_log) < MaxLog
    /\ Len(submit_calls) < MaxSubmits

\* The locals of a call that begins.
ClearFrame ==
    /\ fetch' = "none"
    /\ market_analysis' = NoValue
    /\ position_analysis' = NoSizing
    /\ risk_assessment' = NoValue
    /\ decision' = NoDecision
    /\ execution_result' = NoValue

\* A call from outside the scan: the list a scan returned is gone.
NoScan ==
    /\ results' = <<>>
    /\ scan_idx' = 0
    /\ UNCHANGED scan_active

\* A call of operation o on symbol s begins, the log being base entries
\* long, and waits for analyze_stock.
BeginCall(o, s, base) ==
    /\ op' = o
    /\ cur_symbol' = s
    /\ pc' = "analyzing"
    /\ log_base' = base
    /\ ClearFrame
    /\ result' = NoResult

\* The return to the scan's loop without the append of the result.
ReturnToUnappended(res) ==
    /\ result' = res
    /\ results' = results
    /\ pc' = IF scan_active THEN "sleeping" ELSE "idle"
    /\ UNCHANGED <<op, cur_symbol, scan_active, scan_idx, log_base>>

\* The running call returns res: to the scan's loop, which appends it and
\* sleeps, or to the caller.
ReturnTo(res) ==
    /\ result' = res
    /\ results' = IF scan_active THEN Append(results, res) ELSE results
    /\ pc' = IF scan_active THEN "sleeping" ELSE "idle"
    /\ UNCHANGED <<op, cur_symbol, scan_active, scan_idx, log_base>>

\* The scan's loop goes on, the results being rs and the log base entries
\* long: to the next symbol, or to the end of the watchlist and the return.
NextIteration(rs, base) ==
    /\ results' = rs
    /\ scan_idx' = scan_idx + 1
    /\ IF scan_idx < Len(Watchlist)
       THEN /\ scan_active' = TRUE
            /\ BeginCall("assess", Watchlist[scan_idx + 1], base)
       ELSE /\ scan_active' = FALSE
            /\ pc' = "idle"
            /\ op' = "scan"
            /\ result' = Result("scan", "done", "N/A", NoDecision, "NONE")
            /\ UNCHANGED <<cur_symbol, log_base, frameVars>>

\* The except branch without the append.
ScanOnExceptionDropping(rs, symbol) == rs

\* The except branch of the scan: the error_result is appended.
ScanOnException(rs, symbol) == Append(rs, ExceptionResult(symbol))

\* An exception escapes the running call, the log being newlog: the scan
\* catches it and goes on, any other caller gets it.
Escapes(newlog) ==
    IF scan_active
    THEN NextIteration(ScanOnException(results, cur_symbol), Len(newlog))
    ELSE /\ pc' = "idle"
         /\ result' = ExceptionResult(cur_symbol)
         /\ UNCHANGED <<op, cur_symbol, scanVars, log_base, frameVars>>

FullTradingWorkflow(symbol) ==
    /\ UNCHANGED calls
    /\ CanBegin
    /\ BeginCall("workflow", symbol, Len(communication_log))
    /\ NoScan
    /\ UNCHANGED <<communication_log, riskVars, submit_calls>>

AnalyzeAndAssessSymbol(symbol) ==
    /\ UNCHANGED calls
    /\ CanBegin
    /\ BeginCall("assess", symbol, Len(communication_log))
    /\ NoScan
    /\ UNCHANGED <<communication_log, riskVars, submit_calls>>

ScanWatchlist ==
    /\ UNCHANGED calls
    /\ CanBegin
    /\ results' = <<>>
    /\ scan_idx' = 1
    /\ IF Len(Watchlist) = 0
       THEN /\ scan_active' = FALSE
            /\ pc' = "idle"
            /\ op' = "scan"
            /\ result' = Result("scan", "done", "N/A", NoDecision, "NONE")
            /\ UNCHANGED <<cur_symbol, log_base, frameVars>>
       ELSE /\ scan_active' = TRUE
            /\ BeginCall("assess", Watchlist[1], Len(communication_log))
    /\ UNCHANGED <<communication_log, riskVars, submit_calls>>

\* asyncio.sleep(0.5) is over.
ScanSleepReturns ==
    /\ UNCHANGED calls
    /\ pc = "sleeping"
    /\ NextIteration(results, Len(communication_log))
    /\ UNCHANGED <<communication_log, riskVars, submit_calls>>

GetCommunicationLog ==
    /\ UNCHANGED calls
    /\ pc = "idle"
    /\ ~scan_active
    /\ op' = "log"
    /\ cur_symbol' = ""
    /\ log_base' = Len(communication_log)
    /\ ClearFrame
    /\ NoScan
    /\ result' = Result("log", "done", "N/A", NoDecision, "NONE")
    /\ UNCHANGED <<pc, communication_log, riskVars, submit_calls>>

\* The return of the workflow without the entry for the execution result.
FinishExecutionUnlogged(d, status, lg) ==
    /\ execution_result' = [status |-> status]
    /\ communication_log' = lg
    /\ ReturnTo(CompletedResult(cur_symbol, d, status))

\* execute_approved_trade returned status for decision d, the log being lg:
\* the workflow logs the execution result and returns.
FinishExecution(d, status, lg) ==
    /\ execution_result' = [status |-> status]
    /\ communication_log' =
           LogCommunication(lg, ExecutionResultEntry(cur_symbol, status))
    /\ ReturnTo(CompletedResult(cur_symbol, d, status))

\* _make_risk_decision returned d, the log being lg: evaluate_trade_signal
\* returns, the decision is logged, and full_trading_workflow hands an
\* approved one to execute_approved_trade, which runs up to its await.
AfterDecision(d, lg) ==
    LET lg2 == LogCommunication(lg, RiskDecisionEntry(op, d))
        rd  == RiskEvaluation(cur_symbol, market_analysis.signal, d)
        chk == ExecutionCheck(rd)
    IN  /\ decision' = d
        /\ IF op = "workflow" /\ d.approved
           THEN IF chk = "PLACE"
                THEN \E accepted \in BOOLEAN :
                       /\ submit_calls' =
                              Append(submit_calls, SubmitCall(rd, accepted))
                       /\ IF accepted
                          THEN /\ pc' = "exec_analysis"
                               /\ communication_log' = lg2
                               /\ UNCHANGED <<op, cur_symbol, scanVars,
                                              log_base, execution_result,
                                              result>>
                          ELSE FinishExecution(d, "FAILED", lg2)
                ELSE /\ FinishExecution(d, chk, lg2)
                     /\ UNCHANGED submit_calls
           ELSE /\ execution_result' =
                       IF op = "workflow" THEN [status |-> "SKIPPED"]
                       ELSE execution_result
                /\ communication_log' = lg2
                /\ ReturnTo(CompletedResult(cur_symbol, d,
                       IF op = "workflow" THEN "SKIPPED" ELSE "NONE"))
                /\ UNCHANGED submit_calls

\* analyze_stock returns m.  On an analysis the signal is logged and
\* evaluate_trade_signal checks its input, refreshes the portfolio, sizes the
\* position and assesses the risk up to the advisory opinion it awaits.
MarketAnalysisReturns ==
    /\ UNCHANGED calls
    /\ pc = "analyzing"
    /\ \E m \in MarketOutcomes :
         IF m.status = "error"
         THEN /\ market_analysis' = m
              /\ ReturnTo(ErrorResult("market"))
              /\ UNCHANGED <<communication_log, riskVars, fetch,
                             position_analysis, risk_assessment, decision,
                             execution_result, submit_calls>>
         ELSE LET log1 == LogCommunication(communication_log,
                              TradingSignalEntry(cur_symbol, m))
              IN  /\ communication_log' = log1
                  /\ UNCHANGED <<decision, execution_result, submit_calls>>
                  /\ IF InvalidSignal(cur_symbol, m)
                     THEN /\ market_analysis' = m
                          /\ ReturnTo(ErrorResult("risk"))
                          /\ UNCHANGED <<riskVars, fetch, position_analysis,
                                         risk_assessment>>
                     ELSE \E b \in BrokerOutcomes :
                            LET st == UpdatePortfolioState(
                                          Snapshot(cash, portfolio_value,
                                                   positions), b)
                                pa == CalculatePositionSize(m.signal,
                                          m.confidence, m.price,
                                          m.price_change_pct,
                                          st.portfolio_value)
                                ra == IF pa.method = "RAISED"
                                      THEN [status |-> "RAISED"]
                                      ELSE AssessPortfolioRisk(cur_symbol,
                                               pa, st.cash,
                                               st.portfolio_value,
                                               st.positions)
                            IN  /\ market_analysis' = m
                                /\ cash' = st.cash
                                /\ portfolio_value' = st.portfolio_value
                                /\ positions' = st.positions
                                /\ fetch' = IF b.kind = "ok" THEN "live"
                                            ELSE "fallback"
                                /\ IF ra.status = "RAISED"
                                   THEN /\ ReturnTo(ErrorResult("risk"))
                                        /\ UNCHANGED <<position_analysis,
                                                       risk_assessment>>
                                   ELSE /\ pc' = "advisory"
                                        /\ position_analysis' = pa
                                        /\ risk_assessment' = ra
                                        /\ UNCHANGED <<op, cur_symbol,
                                               scanVars, log_base, result>>

\* An exception escapes the running call while it hands the signal over:
\* log_communication has appended the entry and its print raises, outside
\* every try block of the call.
HandoffRaises ==
    /\ UNCHANGED calls
    /\ pc = "analyzing"
    /\ \E m \in MarketOutcomes :
         /\ m.status = "ok"
         /\ communication_log' = LogCommunication(communication_log,
                                     TradingSignalEntry(cur_symbol, m))
         /\ Escapes(communication_log')
    /\ UNCHANGED <<riskVars, submit_calls>>

\* The advisory opinion of _assess_portfolio_risk arrives, or the call for
\* it raises, which evaluate_trade_signal turns into an error.  The opinion
\* is kept as text only; _make_risk_decision then decides what it can
\* without the arbitration opinion.
AdvisoryOpinionReturns ==
    /\ UNCHANGED calls
    /\ pc = "advisory"
    /\ UNCHANGED <<riskVars, fetch, market_analysis, position_analysis,
                   risk_assessment>>
    /\ \/ \E ai_assessment \in OpinionTexts :
            LET d == DecisionBeforeOpinion(market_analysis.signal,
                                           risk_assessment)
            IN  IF d.action = "ARBITRATE"
                THEN /\ pc' = "arbitrating"
                     /\ UNCHANGED <<op, cur_symbol, scanVars,
                                    communication_log, log_base, decision,
                                    execution_result, result, submit_calls>>
                ELSE AfterDecision(d, communication_log)
       \/ /\ ReturnTo(ErrorResult("risk"))
          /\ UNCHANGED <<communication_log, decision, execution_result,
                         submit_calls>>

\* The arbitration opinion of _make_risk_decision arrives, or the call for
\* it raises.
ArbitrationOpinionReturns ==
    /\ UNCHANGED calls
    /\ pc = "arbitrating"
    /\ UNCHANGED <<riskVars, fetch, market_analysis, position_analysis,
                   risk_assessment>>
    /\ \/ \E ai_decision \in OpinionTexts :
            AfterDecision(DecisionFromOpinion(ai_decision, position_analysis,
                                              risk_assessment),
                          communication_log)
       \/ /\ ReturnTo(ErrorResult("risk"))
          /\ UNCHANGED <<communication_log, decision, execution_result,
                         submit_calls>>

\* execute_approved_trade is called on rd by another caller than the
\* workflow, and runs up to its await.
ExecuteApprovedTrade(rd) ==
    /\ UNCHANGED calls
    /\ CanBegin
    /\ op' = "execute"
    /\ cur_symbol' = rd.symbol
    /\ log_base' = Len(communication_log)
    /\ fetch' = "none"
    /\ market_analysis' = [status |-> "ok", signal |-> rd.original_signal]
    /\ position_analysis' = NoSizing
    /\ risk_assessment' = NoValue
    /\ decision' = [NoDecision EXCEPT
                        !.approved = rd.top_approved \/ rd.decision.approved,
                        !.position_size = rd.decision.position_size]
    /\ NoScan
    /\ UNCHANGED <<communication_log, riskVars>>
    /\ LET chk == ExecutionCheck(rd)
       IN  IF chk = "PLACE"
           THEN \E accepted \in BOOLEAN :
                  /\ submit_calls' =
                         Append(submit_calls, SubmitCall(rd, accepted))
                  /\ IF accepted
                     THEN /\ pc' = "exec_analysis"
                          /\ execution_result' = NoValue
                          /\ result' = NoResult
                     ELSE /\ pc' = "idle"
                          /\ execution_result' = [status |-> "FAILED"]
                          /\ result' = Result("execution", "done", rd.symbol,
                                           decision', "FAILED")
           ELSE /\ pc' = "idle"
                /\ execution_result' = [status |-> chk]
                /\ result' = Result("execution", "done", rd.symbol,
                                 decision', chk)
                /\ UNCHANGED submit_calls

\* The analysis of the execution arrives after an accepted order and the
\* status is SUCCESS, or the call for it raises and the status is ERROR.
ExecutionAnalysisReturns ==
    /\ UNCHANGED calls
    /\ pc = "exec_analysis"
    /\ UNCHANGED <<riskVars, fetch, market_analysis, position_analysis,
                   risk_assessment, decision, submit_calls>>
    /\ \E status \in {"SUCCESS", "ERROR"} :
         IF op = "workflow"
         THEN FinishExecution(decision, status, communication_log)
         ELSE /\ pc' = "idle"
              /\ execution_result' = [status |-> status]
              /\ result' = Result("execution", "done", cur_symbol, decision,
                               status)
              /\ UNCHANGED <<op, cur_symbol, scanVars, communication_log,
                             log_base>>

Next ==
    \/ \E symbol \in WorkflowSymbols : FullTradingWorkflow(symbol)
    \/ \E symbol \in Symbols : AnalyzeAndAssessSymbol(symbol)
    \/ ScanWatchlist
    \/ ScanSleepReturns
    \/ GetCommunicationLog
    \/ \E rd \in DirectEvaluations : ExecuteApprovedTrade(rd)
    \/ MarketAnalysisReturns
    \/ HandoffRaises
    \/ AdvisoryOpinionReturns
    \/ ArbitrationOpinionReturns
    \/ ExecutionAnalysisReturns

Spec == Init /\ [][Next]_vars

\* What the event loop guarantees: an awaited collaborator answers or raises,
\* and the sleep of the scan ends.
Resume ==
    \/ MarketAnalysisReturns
    \/ HandoffRaises
    \/ AdvisoryOpinionReturns
    \/ ArbitrationOpinionReturns
    \/ ExecutionAnalysisReturns
    \/ ScanSleepReturns

ScanSpec == Init /\ [][Next]_vars /\ WF_vars(Resume)

-----------------------------------------------------------------------------
(* _calculate_position_size on its own: the inputs are drawn at the start  *)
(* and the function is applied to them.                                     *)

SizingSignals == {"BUY", "SELL", "HOLD"}

\* Hundredths; 150 and -20 are outside [0, 1].
SizingConfidences == {0, 10, 34, 35, 50, 71, 75, 90, 100, 150, -20}

\* Cents.
SizingPrices == {1, 568, 21355, 2000000}

\* Tenths of a percent.
SizingChanges == {-50, 0, 5, 12, 300}

\* Cents.
SizingPortfolioValues == {1, 5000000, 10000000}

SizingInit ==
    /\ pc = "sizing"
    /\ op = "size"
    /\ cur_symbol = "AAPL"
    /\ scan_active = FALSE
    /\ scan_idx = 0
    /\ results = <<>>
    /\ communication_log = <<>>
    /\ log_base = 0
    /\ cash = initial_capital
    /\ portfolio_value \in SizingPortfolioValues
    /\ positions = <<>>
    /\ fetch = "none"
    /\ market_analysis \in
           { Analysis(sig, c, p, ch) : sig \in SizingSignals,
                 c \in SizingConfidences, p \in SizingPrices,
                 ch \in SizingChanges }
    /\ position_analysis = NoSizing
    /\ risk_assessment = NoValue
    /\ decision = NoDecision
    /\ execution_result = NoValue
    /\ result = NoResult
    /\ submit_calls = <<>>
    /\ calls = <<>>

SizePosition ==
    /\ UNCHANGED calls
    /\ pc = "sizing"
    /\ pc' = "sized"
    /\ position_analysis' =
           CalculatePositionSize(market_analysis.signal,
               market_analysis.confidence, market_analysis.price,
               market_analysis.price_change_pct, portfolio_value)
    /\ UNCHANGED <<op, cur_symbol, scanVars, communication_log, log_base,
                   riskVars, fetch, market_analysis, risk_assessment,
                   decision, execution_result, result, submit_calls>>

SizingNext == SizePosition

SizingSpec == SizingInit /\ [][SizingNext]_vars

-----------------------------------------------------------------------------
(* The numbers of the code are Python floats: IEEE 754 binary64, every      *)
(* operation rounded to the nearest value of 53 significant bits, ties to   *)
(* even.  A significand does not fit an integer of the model checker, so a  *)
(* natural number is a sequence of limbs, the least significant first, with *)
(* no zero limb at the top.                                                  *)

RECURSIVE IntBitLen(_)
IntBitLen(i) == IF i = 0 THEN 0 ELSE 1 + IntBitLen(i \div 2)

\* The product of two limbs fits a 32-bit integer.
LimbBase == 2 ^ 15

LimbBits == IntBitLen(LimbBase) - 1

RECURSIVE NNorm(_)
NNorm(a) ==
    IF a = <<>> THEN a
    ELSE IF a[Len(a)] = 0 THEN NNorm(SubSeq(a, 1, Len(a) - 1)) ELSE a

RECURSIVE NFromInt(_)
NFromInt(i) ==
    IF i = 0 THEN <<>> ELSE <<i % LimbBase>> \o NFromInt(i \div LimbBase)

\* For a number below 2^31.
RECURSIVE NToInt(_)
NToInt(a) == IF a = <<>> THEN 0 ELSE a[1] + LimbBase * NToInt(Tail(a))

RECURSIVE NAddCarry(_, _, _)
NAddCarry(a, b, carry) ==
    IF a = <<>> /\ b = <<>>
    THEN IF carry = 0 THEN <<>> ELSE <<carry>>
    ELSE LET x == IF a = <<>> THEN 0 ELSE a[1]
             y == IF b = <<>> THEN 0 ELSE b[1]
             t == x + y + carry
         IN  <<t % LimbBase>>
             \o NAddCarry(IF a = <<>> THEN a ELSE Tail(a),
                          IF b = <<>> THEN b ELSE Tail(b),
                          t \div LimbBase)

NAdd(a, b) == NAddCarry(a, b, 0)

\* a - b - borrow for a >= b + borrow
RECURSIVE NSubBorrow(_, _, _)
NSubBorrow(a, b, borrow) ==
    IF a = <<>> THEN <<>>
    ELSE LET y == IF b = <<>> THEN 0 ELSE b[1]
             t == a[1] - y - borrow
         IN  <<IF t < 0 THEN t + LimbBase ELSE t>>
             \o NSubBorrow(Tail(a), IF b = <<>> THEN b ELSE Tail(b),
                           IF t < 0 THEN 1 ELSE 0)

NSub(a, b) == NNorm(NSubBorrow(a, b, 0))

\* -1, 0 or 1 as a is below, equal to or above b (both without zero limbs
\* at the top)
RECURSIVE NCmpFrom(_, _, _)
NCmpFrom(a, b, i) ==
    IF i = 0 THEN 0
    ELSE IF a[i] < b[i] THEN -1
    ELSE IF a[i] > b[i] THEN 1
    ELSE NCmpFrom(a, b, i - 1)

NCmp(a, b) ==
    IF Len(a) < Len(b) THEN -1
    ELSE IF Len(a) > Len(b) THEN 1
    ELSE NCmpFrom(a, b, Len(a))

\* a * k + carry for a limb k
RECURSIVE NMulLimb(_, _, _)
NMulLimb(a, k, carry) ==
    IF a = <<>>
    THEN IF carry = 0 THEN <<>> ELSE <<carry>>
    ELSE LET t == a[1] * k + carry
         IN  <<t % LimbBase>> \o NMulLimb(Tail(a), k, t \div LimbBase)

RECURSIVE NMul(_, _)
NMul(a, b) ==
    IF a = <<>> \/ b = <<>> THEN <<>>
    ELSE NNorm(NAdd(NMulLimb(a, b[1], 0), <<0>> \o NMul(a, Tail(b))))

Zeros(n) == [i \in 1..n |-> 0]

\* a * 2^n: every limb keeps the low part of its own shifted bits and takes
\* the high part of the limb below.
NShiftLeft(a, n) ==
    IF a = <<>> THEN a
    ELSE LET k == 2 ^ (n % LimbBits)
         IN  Zeros(n \div LimbBits)
             \o NNorm([i \in 1..(Len(a) + 1) |->
                     (IF i <= Len(a) THEN (a[i] * k) % LimbBase ELSE 0)
                     + (IF i > 1 THEN (a[i - 1] * k) \div LimbBase ELSE 0)])

\* a \div 2^n: every limb keeps the high part of its own bits and takes the
\* low part of the limb above.
NShiftRight(a, n) ==
    IF n \div LimbBits >= Len(a) THEN <<>>
    ELSE LET k == 2 ^ (n % LimbBits)
             d == n \div LimbBits
         IN  NNorm([i \in 1..(Len(a) - d) |->
                 a[i + d] \div k
                 + (IF i + d < Len(a)
                    THEN (a[i + d + 1] % k) * (LimbBase \div k) ELSE 0)])

NBitLen(a) ==
    IF a = <<>> THEN 0
    ELSE (Len(a) - 1) * LimbBits + IntBitLen(a[Len(a)])

\* Bit i of a, bit 0 the least significant
NBit(a, i) ==
    IF i \div LimbBits >= Len(a) THEN 0
    ELSE (a[i \div LimbBits + 1] \div (2 ^ (i % LimbBits))) % 2

\* Long division in binary, one step: bit i of a enters the remainder of the
\* quotient and remainder qr so far, and b is taken off when it fits.
NDivModStep(a, b, i, qr) ==
    LET r2 == NAdd(NShiftLeft(qr.rem, 1), NFromInt(NBit(a, i)))
        ge == NCmp(r2, b) >= 0
    IN  [quot |-> NAdd(NShiftLeft(qr.quot, 1),
                       NFromInt(IF ge THEN 1 ELSE 0)),
         rem  |-> IF ge THEN NSub(r2, b) ELSE r2]

\* The steps for the bits hi down to lo of a, by b > 0.  The range is cut in
\* four and each part is finished before the next one starts, which keeps
\* the nesting of the evaluation shallow.
RECURSIVE NDivModFrom(_, _, _, _, _)
NDivModFrom(a, b, hi, lo, qr) ==
    CASE hi < lo -> qr
      [] hi = lo -> NDivModStep(a, b, hi, qr)
      [] OTHER ->
         LET n  == (hi - lo + 4) \div 4
             q1 == NDivModFrom(a, b, hi, hi - n + 1, qr)
             q2 == NDivModFrom(a, b, hi - n, MaxInt(lo, hi - 2 * n + 1), q1)
             q3 == NDivModFrom(a, b, hi - 2 * n,
                               MaxInt(lo, hi - 3 * n + 1), q2)
         IN  IF {q1, q2, q3} # {}
             THEN NDivModFrom(a, b, hi - 3 * n, lo, q3)
             ELSE qr

\* The bits of a above the lowest n are below b and start as the remainder.
NDivMod(a, b) ==
    IF NCmp(a, b) < 0 THEN [quot |-> <<>>, rem |-> a]
    ELSE LET n == NBitLen(a) - (NBitLen(b) - 1)
         IN  NDivModFrom(a, b, n - 1, 0,
                         [quot |-> <<>>, rem |-> NShiftRight(a, n)])

-----------------------------------------------------------------------------
(* A float is a sign, a significand m of mant_dig bits (or zero) and an     *)
(* exponent e: its value is m * 2^e, negated when neg.  The values of the   *)
(* model stay far from overflow and underflow.                              *)

\* sys.float_info.mant_dig
mant_dig == 53

FlZero == [neg |-> FALSE, m |-> <<>>, e |-> 0]

\* n * 2^e, plus less than one unit of n when sticky, rounded to the nearest
\* float, ties to even.  With sticky, n has more than mant_dig + 1 bits.
FlRound(neg, n, e, sticky) ==
    IF n = <<>> THEN FlZero
    ELSE LET len == NBitLen(n)
             k   == len - mant_dig
             q   == NShiftRight(n, k)
             r   == NSub(n, NShiftLeft(q, k))
             c   == NCmp(r, NShiftLeft(<<1>>, k - 1))
             up  == c > 0 \/ (c = 0 /\ (sticky \/ NBit(q, 0) = 1))
             q2  == IF up THEN NAdd(q, <<1>>) ELSE q
         IN  IF k <= 0
             THEN [neg |-> neg, m |-> NShiftLeft(n, -k), e |-> e + k]
             ELSE IF NBitLen(q2) > mant_dig
                  THEN [neg |-> neg, m |-> NShiftRight(q2, 1), e |-> e + k + 1]
                  ELSE [neg |-> neg, m |-> q2, e |-> e + k]

\* float(i)
FlFromInt(i) == FlRound(i < 0, NFromInt(Abs(i)), 0, FALSE)

FlNeg(a) == IF a.m = <<>> THEN a ELSE [a EXCEPT !.neg = ~a.neg]

FlAbs(a) == [a EXCEPT !.neg = FALSE]

FlMul(a, b) ==
    IF a.m = <<>> \/ b.m = <<>> THEN FlZero
    ELSE FlRound(a.neg # b.neg, NMul(a.m, b.m), a.e + b.e, FALSE)

\* a / b for b other than zero
FlDiv(a, b) ==
    IF a.m = <<>> THEN FlZero
    ELSE LET dm == NDivMod(NShiftLeft(a.m, mant_dig + 3), b.m)
         IN  FlRound(a.neg # b.neg, dm.quot, a.e - b.e - (mant_dig + 3),
                     dm.rem # <<>>)

FlAdd(a, b) ==
    IF a.m = <<>> THEN b
    ELSE IF b.m = <<>> THEN a
    ELSE LET e0 == MinInt(a.e, b.e)
             x  == NShiftLeft(a.m, a.e - e0)
             y  == NShiftLeft(b.m, b.e - e0)
             c  == NCmp(x, y)
         IN  IF a.neg = b.neg THEN FlRound(a.neg, NAdd(x, y), e0, FALSE)
             ELSE IF c = 0 THEN FlZero
             ELSE IF c > 0 THEN FlRound(a.neg, NSub(x, y), e0, FALSE)
             ELSE FlRound(b.neg, NSub(y, x), e0, FALSE)

FlSub(a, b) == FlAdd(a, FlNeg(b))

FlSign(a) == IF a.m = <<>> THEN 0 ELSE IF a.neg THEN -1 ELSE 1

FlLess(a, b) == FlSign(FlSub(a, b)) < 0

FlLeq(a, b) == FlSign(FlSub(a, b)) <= 0

\* Python's min and max of two numbers: the first one wins a tie.
FlMin(a, b) == IF FlLess(b, a) THEN b ELSE a

FlMax(a, b) == IF FlLess(a, b) THEN b ELSE a

\* int(a): toward zero, for a float below 2^31 in magnitude
FlTrunc(a) ==
    LET mag == IF a.e >= 0 THEN NShiftLeft(a.m, a.e)
               ELSE NShiftRight(a.m, -a.e)
    IN  IF a.neg THEN -NToInt(mag) ELSE NToInt(mag)

\* The float that the decimal n / d reads as; both fit a float exactly and
\* the division rounds once, as the reading of a literal does.
FlDec(n, d) == FlDiv(FlFromInt(n), FlFromInt(d))

-----------------------------------------------------------------------------
(* RiskAgent._calculate_position_size in floats *)

\* kelly_fraction without its cap at 25 percent.
FlKellyUncapped(win_rate, avg_win, avg_loss) ==
    FlMax(FlFromInt(0),
          FlDiv(FlSub(FlMul(win_rate, avg_win),
                      FlMul(FlSub(FlFromInt(1), win_rate), avg_loss)),
                avg_win))

\* kelly_fraction of the win rate, the average win and the average loss
FlKellyOf(win_rate, avg_win, avg_loss) ==
    FlMax(FlFromInt(0),
          FlMin(FlDiv(FlSub(FlMul(win_rate, avg_win),
                            FlMul(FlSub(FlFromInt(1), win_rate), avg_loss)),
                      avg_win),
                FlDec(25, 100)))

FlKellyFraction(confidence) ==
    FlKellyOf(FlMin(confidence, FlDec(9, 10)), FlDec(15, 100), FlDec(8, 100))

FlEstimateVolatility(price_change_pct) ==
    FlDiv(FlAbs(price_change_pct), FlFromInt(100))

FlVolAdjustedSize(price_change_pct) ==
    FlDiv(FlDec(max_portfolio_risk.n, max_portfolio_risk.d),
          FlMax(FlEstimateVolatility(price_change_pct), FlDec(1, 100)))

FlConfidenceSize(confidence) ==
    FlMul(confidence, FlDec(max_position_size.n, max_position_size.d))

FlOptimalFraction(kelly, vol, conf) == FlMin(FlMin(kelly, vol), conf)

\* The returned analysis: f holds the fractions, requested is the local
\* dollar_amount before the shares are cut to an integer, actual the local
\* actual_dollar_amount.
FlPositionAnalysis(f, requested, shares, actual, price, pv) ==
    [method |-> "KELLY_VOLATILITY_CONFIDENCE",
     kelly_fraction |-> f.kelly_fraction,
     volatility_fraction |-> f.volatility_fraction,
     confidence_fraction |-> f.confidence_fraction,
     optimal_fraction |-> f.optimal_fraction,
     requested |-> requested,
     shares |-> shares,
     dollar_amount |-> actual,
     portfolio_percentage |-> FlDiv(actual, pv),
     price |-> price]

\* actual_dollar_amount = shares * price
FlActualDollarAmount(f, requested, shares, price, pv) ==
    FlPositionAnalysis(f, requested, shares, FlMul(FlFromInt(shares), price),
                       price, pv)

\* shares = int(dollar_amount / price)
FlShares(f, requested, price, pv) ==
    FlActualDollarAmount(f, requested, FlTrunc(FlDiv(requested, price)),
                         price, pv)

\* dollar_amount = portfolio_value * optimal_fraction
FlDollarAmount(f, price, pv) ==
    FlShares(f, FlMul(pv, f.optimal_fraction), price, pv)

FlFractions(kelly, vol, conf) ==
    [kelly_fraction |-> kelly, volatility_fraction |-> vol,
     confidence_fraction |-> conf,
     optimal_fraction |-> FlOptimalFraction(kelly, vol, conf)]

\* The sizing of a signal other than HOLD for a portfolio value other than
\* zero.
FlCalculatePositionSize(signal, confidence, price, price_change_pct, pv) ==
    IF signal = "HOLD"
    THEN [method |-> "HOLD", shares |-> 0, dollar_amount |-> FlZero,
          portfolio_percentage |-> FlZero]
    ELSE FlDollarAmount(FlFractions(FlKellyFraction(confidence),
                                    FlVolAdjustedSize(price_change_pct),
                                    FlConfidenceSize(confidence)),
                        price, pv)

-----------------------------------------------------------------------------
(* _calculate_position_size in floats on its own: the inputs are decimals   *)
(* drawn at the start, read as floats and sized.                            *)

\* Hundredths.
FloatConfidences == {35, 49, 50, 71, 72, 75, 100}

\* Cents.
FloatPrices == {36, 71, 112, 288, 568, 21355}

\* Cents.
FloatPortfolioValues == {5000000, 10000000}

FloatSizingInit ==
    /\ pc = "sizing"
    /\ op = "size"
    /\ cur_symbol = "AAPL"
    /\ scan_active = FALSE
    /\ scan_idx = 0
    /\ results = <<>>
    /\ communication_log = <<>>
    /\ log_base = 0
    /\ cash = initial_capital
    /\ portfolio_value \in FloatPortfolioValues
    /\ positions = <<>>
    /\ fetch = "none"
    /\ market_analysis \in
           { Analysis(sig, c, p, 12) : sig \in SizingSignals,
                 c \in FloatConfidences, p \in FloatPrices }
    /\ position_analysis = NoSizing
    /\ risk_assessment = NoValue
    /\ decision = NoDecision
    /\ execution_result = NoValue
    /\ result = NoResult
    /\ submit_calls = <<>>
    /\ calls = <<>>

FloatSizePosition ==
    /\ UNCHANGED calls
    /\ pc = "sizing"
    /\ pc' = "sized"
    /\ position_analysis' =
           FlCalculatePositionSize(market_analysis.signal,
               FlDec(market_analysis.confidence, 100),
               FlDec(market_analysis.price, 100),
               FlDec(market_analysis.price_change_pct, 10),
               FlDec(portfolio_value, 100))
    /\ UNCHANGED <<op, cur_symbol, scanVars, communication_log, log_base,
                   riskVars, fetch, market_analysis, risk_assessment,
                   decision, execution_result, result, submit_calls>>

FloatSizingNext == FloatSizePosition

FloatSizingSpec == FloatSizingInit /\ [][FloatSizingNext]_vars

-----------------------------------------------------------------------------
(* RiskAgent.evaluate_trade_signal called twice side by side on the one     *)
(* RiskAgent, as by asyncio.gather: each call has its locals, both share    *)
(* self.cash, self.portfolio_value and self.positions, and a call gives way *)
(* to the other where it awaits an opinion.                                  *)

CallIds == {1, 2}

\* The signals the calls are handed.
CallSignals == {m \in MarketOutcomes : m.status = "ok"}

\* The locals of a call that has not begun; returned is "NONE", or
\* "evaluation" or "error" for the dict the call returned.
NoCall ==
    [pc |-> "none", symbol |-> "", market_analysis |-> NoValue,
     position_analysis |-> NoSizing, risk_assessment |-> NoValue,
     decision |-> NoDecision, returned |-> "NONE"]

\* The call returns {"error": ...}.
CallError(c) == [c EXCEPT !.pc = "returned", !.returned = "error"]

\* The call returns its evaluation with decision d.
CallReturns(c, d) ==
    [c EXCEPT !.pc = "returned", !.decision = d, !.returned = "evaluation"]

\* What _assess_portfolio_risk returns once the advisory opinion is there:
\* the values it computed before the await, and under available_cash the
\* self.cash of the moment of the return.
AssessmentReturned(computed, c) == [computed EXCEPT !.available_cash = c]

InterleaveInit ==
    /\ pc = "interleaved"
    /\ op = "evaluate"
    /\ cur_symbol = ""
    /\ scan_active = FALSE
    /\ scan_idx = 0
    /\ results = <<>>
    /\ communication_log = <<>>
    /\ log_base = 0
    /\ cash = initial_capital
    /\ portfolio_value = -1
    /\ positions = <<>>
    /\ fetch = "none"
    /\ market_analysis = NoValue
    /\ position_analysis = NoSizing
    /\ risk_assessment = NoValue
    /\ decision = NoDecision
    /\ execution_result = NoValue
    /\ result = NoResult
    /\ submit_calls = <<>>
    /\ calls = [i \in CallIds |-> NoCall]

coordinatorVars ==
    <<pc, op, cur_symbol, scanVars, communication_log, log_base, frameVars,
      result, submit_calls>>

\* Call i begins on symbol and m and runs up to its first await of an
\* opinion: the check of the input, the refresh of the portfolio, the sizing
\* and the assessment up to the advisory opinion.
EvaluateTradeSignal(i, symbol, m) ==
    /\ calls[i].pc = "none"
    /\ UNCHANGED coordinatorVars
    /\ LET c == [NoCall EXCEPT !.symbol = symbol, !.market_analysis = m]
       IN  IF InvalidSignal(symbol, m)
           THEN /\ calls' = [calls EXCEPT ![i] = CallError(c)]
                /\ UNCHANGED riskVars
           ELSE \E b \in BrokerOutcomes :
                  LET st == UpdatePortfolioState(
                                Snapshot(cash, portfolio_value, positions), b)
                      pa == CalculatePositionSize(m.signal, m.confidence,
                                m.price, m.price_change_pct,
                                st.portfolio_value)
                      ra == IF pa.method = "RAISED"
                            THEN [status |-> "RAISED"]
                            ELSE AssessPortfolioRisk(symbol, pa, st.cash,
                                     st.portfolio_value, st.positions)
                  IN  /\ cash' = st.cash
                      /\ portfolio_value' = st.portfolio_value
                      /\ positions' = st.positions
                      /\ calls' =
                             [calls EXCEPT ![i] =
                                 IF ra.status = "RAISED" THEN CallError(c)
                                 ELSE [c EXCEPT !.pc = "advisory",
                                          !.position_analysis = pa,
                                          !.risk_assessment = ra]]

\* The advisory opinion of call i arrives, or the call for it raises:
\* _assess_portfolio_risk returns and _make_risk_decision decides what it can
\* without the arbitration opinion.
AdvisoryResumes(i) ==
    /\ calls[i].pc = "advisory"
    /\ UNCHANGED <<coordinatorVars, riskVars>>
    /\ \/ \E ai_assessment \in OpinionTexts :
            LET c == [calls[i] EXCEPT !.risk_assessment =
                         AssessmentReturned(calls[i].risk_assessment, cash)]
                d == DecisionBeforeOpinion(c.market_analysis.signal,
                                           c.risk_assessment)
            IN  calls' = [calls EXCEPT ![i] =
                             IF d.action = "ARBITRATE"
                             THEN [c EXCEPT !.pc = "arbitrating"]
                             ELSE CallReturns(c, d)]
       \/ calls' = [calls EXCEPT ![i] = CallError(calls[i])]

\* The arbitration opinion of call i arrives, or the call for it raises.
ArbitrationResumes(i) ==
    /\ calls[i].pc = "arbitrating"
    /\ UNCHANGED <<coordinatorVars, riskVars>>
    /\ \/ \E ai_decision \in OpinionTexts :
            calls' = [calls EXCEPT ![i] =
                         CallReturns(calls[i],
                             DecisionFromOpinion(ai_decision,
                                 calls[i].position_analysis,
                                 calls[i].risk_assessment))]
       \/ calls' = [calls EXCEPT ![i] = CallError(calls[i])]

InterleaveNext ==
    \/ \E i \in CallIds, symbol \in WorkflowSymbols, m \in CallSignals :
          EvaluateTradeSignal(i, symbol, m)
    \/ \E i \in CallIds : AdvisoryResumes(i)
    \/ \E i \in CallIds : ArbitrationResumes(i)

InterleaveSpec == InterleaveInit /\ [][InterleaveNext]_vars

-----------------------------------------------------------------------------
(* The sizing and _assess_portfolio_risk up to its await, and what           *)
(* _make_risk_decision decides of the result without an opinion, on their    *)
(* own: the inputs are drawn at the start and the functions applied to them. *)

AssessSignals ==
    { Analysis("HOLD", 50, 21355, 12),
      Analysis("BUY", 75, 21355, 12),
      Analysis("BUY", 37, 200000, 12),
      Analysis("BUY", 100, 100000, 12),
      Analysis("SELL", 30, 21355, 12),
      Analysis("STRONG_BUY", 150, 21355, 12) }

\* The books the assessment is made on: those the brokerage may report, books
\* with a value exactly at a limit and just beyond it, and a short position.
AssessSnapshots ==
    Snapshots \cup
    { Snapshot(200000, 10000000, ("AAPL" :> 800000) @@ ("NVDA" :> 7200000)),
      Snapshot(199999, 10000000, ("AAPL" :> 800001) @@ ("NVDA" :> 7200000)),
      Snapshot(2000000, 10000000, ("AAPL" :> -9500000)) }

AssessInit ==
    /\ pc = "assessing"
    /\ op = "assess_risk"
    /\ cur_symbol \in Symbols
    /\ scan_active = FALSE
    /\ scan_idx = 0
    /\ results = <<>>
    /\ communication_log = <<>>
    /\ log_base = 0
    /\ \E snap \in AssessSnapshots :
          /\ cash = snap.cash
          /\ portfolio_value = snap.portfolio_value
          /\ positions = snap.positions
    /\ fetch = "none"
    /\ market_analysis \in AssessSignals
    /\ position_analysis = NoSizing
    /\ risk_assessment = NoValue
    /\ decision = NoDecision
    /\ execution_result = NoValue
    /\ result = NoResult
    /\ submit_calls = <<>>
    /\ calls = <<>>

\* The position is sized and its risk assessed.
AssessPosition ==
    /\ pc = "assessing"
    /\ pc' = "assessed"
    /\ LET pa == CalculatePositionSize(market_analysis.signal,
                     market_analysis.confidence, market_analysis.price,
                     market_analysis.price_change_pct, portfolio_value)
       IN  /\ position_analysis' = pa
           /\ risk_assessment' =
                  IF pa.method = "RAISED" THEN [status |-> "RAISED"]
                  ELSE AssessPortfolioRisk(cur_symbol, pa, cash,
                           portfolio_value, positions)
    /\ UNCHANGED <<op, cur_symbol, scanVars, communication_log, log_base,
                   riskVars, fetch, market_analysis, decision,
                   execution_result, result, submit_calls, calls>>

\* The return with the flag of the cash taken from the opinion.
AssessmentHeedingOpinion(computed, ai_assessment) ==
    [status |-> computed.status,
     position_concentration |-> computed.position_concentration,
     concentration_risk |-> computed.concentration_risk,
     portfolio_risk_breach |-> computed.portfolio_risk_breach,
     sufficient_cash |-> ~Contains(Upper(ai_assessment),
                                   <<"R", "E", "J", "E", "C", "T">>),
     cash_needed |-> computed.cash_needed,
     available_cash |-> computed.available_cash,
     portfolio_utilization |-> computed.portfolio_utilization,
     risk_factors |-> computed.risk_factors,
     risk_score |-> computed.risk_score,
     ai_assessment |-> ai_assessment,
     risk_level |-> computed.risk_level]

\* What _assess_portfolio_risk returns once the advisory opinion is there:
\* the values it computed before the await, and the opinion.
AssessmentWithOpinion(computed, ai_assessment) ==
    [status |-> computed.status,
     position_concentration |-> computed.position_concentration,
     concentration_risk |-> computed.concentration_risk,
     portfolio_risk_breach |-> computed.portfolio_risk_breach,
     sufficient_cash |-> computed.sufficient_cash,
     cash_needed |-> computed.cash_needed,
     available_cash |-> computed.available_cash,
     portfolio_utilization |-> computed.portfolio_utilization,
     risk_factors |-> computed.risk_factors,
     risk_score |-> computed.risk_score,
     ai_assessment |-> ai_assessment,
     risk_level |-> computed.risk_level]

\* The advisory opinion arrives, _assess_portfolio_risk returns and
\* _make_risk_decision decides what it can without the arbitration opinion.
DecideAssessed ==
    /\ pc = "assessed"
    /\ risk_assessment.status = "OK"
    /\ pc' = "decided"
    /\ \E ai_assessment \in OpinionTexts :
         /\ risk_assessment' =
                AssessmentWithOpinion(risk_assessment, ai_assessment)
         /\ decision' = DecisionBeforeOpinion(market_analysis.signal,
                                              risk_assessment')
    /\ UNCHANGED <<op, cur_symbol, scanVars, communication_log, log_base,
                   riskVars, fetch, market_analysis, position_analysis,
                   execution_result, result, submit_calls, calls>>

AssessNext == AssessPosition \/ DecideAssessed

AssessSpec == AssessInit /\ [][AssessNext]_vars

-----------------------------------------------------------------------------
(* execute_approved_trade on its own: the risk evaluation it is handed      *)
(* carries whatever signal the market agent took from the answer of the     *)
(* model.                                                                    *)

ExecuteSignals == {"BUY", "SELL", "HOLD", "STRONG_BUY", "buy"}

ExecuteEvaluations ==
    { [symbol |-> s, original_signal |-> sig, top_approved |-> FALSE,
       decision |-> [approved |-> a, position_size |-> n]] :
          s \in {"AAPL", "NVDA"}, sig \in ExecuteSignals, a \in BOOLEAN,
          n \in {0, 10, 35} }

ExecuteNext ==
    \/ \E rd \in ExecuteEvaluations : ExecuteApprovedTrade(rd)
    \/ ExecutionAnalysisReturns

ExecuteSpec == Init /\ [][ExecuteNext]_vars

-----------------------------------------------------------------------------
(* The properties *)

\* The running or last call is an evaluation by the coordinator.
Evaluating == op \in {"workflow", "assess"}

\* The three automatic rejection conditions, read off the risk assessment.
AutoRejectCondition ==
    \/ ~risk_assessment.sufficient_cash
    \/ risk_assessment.concentration_risk
    \/ FLess(Frac(8, 10), risk_assessment.risk_score)

\* C1 - Auto-reject dominance: when a non-HOLD signal is evaluated and the
\* cash is insufficient, or the concentration limit exceeded, or the risk
\* score above 0.8, then the decision is not approved and the arbitration
\* opinion is not even asked for; and an approved decision means that the
\* signal was not HOLD and none of the three conditions held.
C1_AutoRejectDominance ==
    (Evaluating /\ risk_assessment.status = "OK") =>
        /\ (market_analysis.signal # "HOLD" /\ AutoRejectCondition) =>
               (~decision.approved /\ pc # "arbitrating")
        /\ decision.approved =>
               (market_analysis.signal # "HOLD" /\ ~AutoRejectCondition)

\* A BUY signal was rejected for want of cash alone.
C1_Witness ==
    /\ Evaluating
    /\ pc = "idle"
    /\ risk_assessment.status = "OK"
    /\ market_analysis.signal = "BUY"
    /\ ~risk_assessment.sufficient_cash
    /\ ~risk_assessment.concentration_risk
    /\ decision.action = "REJECT"
    /\ decision.rejection_reasons = <<"Insufficient cash">>

\* C2 - HOLD absorption: the evaluation of a HOLD signal sizes the position
\* at 0 shares and 0 dollars, never asks for the arbitration opinion, never
\* reaches the order, and the decision it returns is HOLD, not approved, of
\* size 0; and no order is ever submitted for a HOLD signal, by any caller.
C2_HoldAbsorption ==
    /\ (Evaluating /\ market_analysis.status = "ok"
            /\ market_analysis.signal = "HOLD") =>
         /\ position_analysis.method \in {"NONE", "HOLD"}
         /\ position_analysis.method = "HOLD" =>
                (position_analysis.shares = 0
                     /\ position_analysis.dollar_amount = 0)
         /\ pc \notin {"arbitrating", "exec_analysis"}
         /\ decision \in {NoDecision, HoldDecision}
         /\ result.kind = "completed" =>
                (/\ decision.action = "HOLD"
                 /\ ~decision.approved
                 /\ decision.position_size = 0
                 /\ result.action = "HOLD"
                 /\ ~result.approved
                 /\ result.position_size = 0)
         /\ execution_result.status \in {"NONE", "SKIPPED"}
    /\ \A i \in 1..Len(submit_calls) :
           submit_calls[i].context.original_signal # "HOLD"

\* The workflow returned the HOLD decision for a HOLD signal while the
\* portfolio was short of cash and concentrated.
C2_Witness ==
    /\ op = "workflow"
    /\ result.kind = "completed"
    /\ market_analysis.signal = "HOLD"
    /\ position_analysis.method = "HOLD"
    /\ ~risk_assessment.sufficient_cash \/ risk_assessment.concentration_risk
    /\ decision = HoldDecision
    /\ submit_calls = <<>>

\* The inputs the sizing is meant for: a confidence in [0, 1], a positive
\* price and a positive portfolio value.
ValidSizingInput ==
    /\ market_analysis.confidence \in 0..100
    /\ market_analysis.price > 0
    /\ portfolio_value > 0

\* The sizing of a non-HOLD signal has returned.
Sized ==
    /\ pc = "sized"
    /\ position_analysis.method = "KELLY_VOLATILITY_CONFIDENCE"

ConfidenceBinding ==
    /\ FLeq(position_analysis.confidence_fraction,
            position_analysis.kelly_fraction)
    /\ FLeq(position_analysis.confidence_fraction,
            position_analysis.volatility_fraction)

\* C3 - Conservatism law: for a non-HOLD signal with valid inputs, the
\* optimal fraction returned is the least of the kelly, volatility and
\* confidence fractions returned with it (not above any of them and equal to
\* one of them), and it is at most max_position_size whenever the confidence
\* fraction is the least of the three.
C3_ConservatismLaw ==
    (Sized /\ ValidSizingInput) =>
        /\ FLeq(position_analysis.optimal_fraction,
                position_analysis.kelly_fraction)
        /\ FLeq(position_analysis.optimal_fraction,
                position_analysis.volatility_fraction)
        /\ FLeq(position_analysis.optimal_fraction,
                position_analysis.confidence_fraction)
        /\ position_analysis.optimal_fraction \in
               {position_analysis.kelly_fraction,
                position_analysis.volatility_fraction,
                position_analysis.confidence_fraction}
        /\ ConfidenceBinding =>
               FLeq(position_analysis.optimal_fraction, max_position_size)

\* A BUY at the confidence 0.75 was sized at 7.5 percent, the confidence
\* fraction, which is below the other two.
C3_Witness ==
    /\ Sized
    /\ ValidSizingInput
    /\ market_analysis.signal = "BUY"
    /\ market_analysis.confidence = 75
    /\ ConfidenceBinding
    /\ FLess(position_analysis.confidence_fraction,
             position_analysis.kelly_fraction)
    /\ position_analysis.optimal_fraction = Frac(75, 1000)

-----------------------------------------------------------------------------

\* The entries the running or last call appended, and their types.
NewEntries ==
    SubSeq(communication_log, log_base + 1, Len(communication_log))

EntryTypes(entries) == [i \in 1..Len(entries) |-> entries[i].message_type]

\* full_trading_workflow has returned a dict.
WorkflowReturned ==
    /\ op = "workflow"
    /\ pc = "idle"
    /\ result.kind \in {"error", "completed"}

\* execute_approved_trade was called and has returned.
ExecutionAttempted == execution_result.status \notin {"NONE", "SKIPPED"}

\* floor(x / y) of the values of two floats above zero, without rounding
FlFloorQuotient(x, y) ==
    IF x.e >= y.e
    THEN NToInt(NDivMod(NShiftLeft(x.m, x.e - y.e), y.m).quot)
    ELSE NToInt(NDivMod(x.m, NShiftLeft(y.m, y.e - x.e)).quot)

\* C4 - Share rounding: for the dollar amount requested (the portfolio value
\* times the optimal fraction) and the price, the shares are the floor of
\* the requested amount over the price, the realized dollar amount, shares
\* times price, is at most the requested amount, and the portfolio
\* percentage is the realized amount over the portfolio value.
C4_ShareRounding ==
    (Sized /\ ValidSizingInput) =>
        /\ position_analysis.shares =
               FlFloorQuotient(position_analysis.requested,
                               position_analysis.price)
        /\ FlLeq(position_analysis.dollar_amount,
                 position_analysis.requested)
        /\ position_analysis.portfolio_percentage =
               FlDiv(FlMul(FlFromInt(position_analysis.shares),
                           position_analysis.price),
                     FlDec(portfolio_value, 100))

\* C5 as the specification states it - every call of full_trading_workflow,
\* whatever its outcome, appends at least two entries, a TRADING_SIGNAL then
\* a RISK_DECISION, and exactly three, the last an EXECUTION_RESULT, when
\* the execution is attempted; no type is appended twice.
C5_AtLeastTwoEntries ==
    WorkflowReturned =>
        LET types == EntryTypes(NewEntries)
        IN  /\ Len(types) >= 2
            /\ types[1] = "TRADING_SIGNAL"
            /\ types[2] = "RISK_DECISION"
            /\ ExecutionAttempted =>
                   types = <<"TRADING_SIGNAL", "RISK_DECISION",
                             "EXECUTION_RESULT">>
            /\ ~ExecutionAttempted => Len(types) = 2

\* C5 - Audit completeness: a call of full_trading_workflow that returns its
\* workflow result has appended a TRADING_SIGNAL then a RISK_DECISION, and
\* after them an EXECUTION_RESULT exactly when the decision is approved and
\* the execution attempted; a call that returns the error of the market
\* analysis has appended nothing, and one that returns the error of the risk
\* evaluation only the TRADING_SIGNAL; no type is appended twice.
C5_AuditCompleteness ==
    WorkflowReturned =>
        /\ EntryTypes(NewEntries) =
               IF result.kind = "error"
               THEN IF result.stage = "market" THEN <<>>
                    ELSE <<"TRADING_SIGNAL">>
               ELSE IF ExecutionAttempted
                    THEN <<"TRADING_SIGNAL", "RISK_DECISION",
                           "EXECUTION_RESULT">>
                    ELSE <<"TRADING_SIGNAL", "RISK_DECISION">>
        /\ result.kind = "error" => ~ExecutionAttempted
        /\ result.kind = "completed" =>
               (ExecutionAttempted <=> decision.approved)

\* The workflow returned after an accepted order, with three new entries.
C5_Witness ==
    /\ WorkflowReturned
    /\ result.kind = "completed"
    /\ execution_result.status = "SUCCESS"
    /\ EntryTypes(NewEntries) =
           <<"TRADING_SIGNAL", "RISK_DECISION", "EXECUTION_RESULT">>

IsPrefix(s, t) == Len(s) <= Len(t) /\ SubSeq(t, 1, Len(s)) = s

\* C6 - The log is append-only: whatever call or step of a call comes next
\* (workflow, assessment, scan or get_communication_log), the log before it
\* is a prefix of the log after it; no entry is removed, moved or changed
\* and the length never decreases.
C6_AppendOnly == [][IsPrefix(communication_log, communication_log')]_vars

\* get_communication_log is called after a scan that appended four entries.
C6_Witness ==
    /\ op = "log"
    /\ Len(communication_log) = 4
    /\ communication_log[3].message_type = "TRADING_SIGNAL"
    /\ communication_log[1].symbol # communication_log[3].symbol

\* What execute_approved_trade returned is in execution_result.
ExecutionReturned ==
    /\ pc = "idle"
    /\ \/ op = "execute" /\ result.kind = "execution"
       \/ op = "workflow" /\ result.kind = "completed" /\ ExecutionAttempted

C7_Orders ==
    \A i \in 1..Len(submit_calls) :
        /\ submit_calls[i].context.decision.approved
        /\ submit_calls[i].context.original_signal # "HOLD"
        /\ submit_calls[i].symbol # ""
        /\ submit_calls[i].symbol = submit_calls[i].context.symbol
        /\ submit_calls[i].quantity > 0
        /\ submit_calls[i].quantity =
               submit_calls[i].context.decision.position_size

C7_Statuses ==
    ExecutionReturned =>
        /\ ~decision.approved => execution_result.status = "REJECTED"
        /\ (decision.approved
              /\ (decision.position_size <= 0
                    \/ market_analysis.signal = "HOLD"))
               => execution_result.status = "NO_ACTION"
        /\ execution_result.status \in {"SUCCESS", "FAILED", "ERROR"} =>
               /\ decision.approved
               /\ decision.position_size > 0
               /\ market_analysis.signal # "HOLD"
               /\ cur_symbol # ""

C7_NoSubmit ==
    execution_result'.status \in {"REJECTED", "NO_ACTION"} =>
        submit_calls' = submit_calls

\* C7 - An order is submitted only after an approved decision: every order
\* sent to the brokerage carries a decision with approved = true, a signal
\* other than HOLD, a symbol that is not empty and a position size above 0,
\* which is its quantity; a decision that is not approved yields REJECTED and
\* an approved one of size 0 or for HOLD yields NO_ACTION, and the step that
\* yields either sends no order.
C7_SubmitOnlyApproved ==
    /\ [](C7_Orders /\ C7_Statuses)
    /\ [][C7_NoSubmit]_vars

\* The workflow sent the order of an approved BUY and the brokerage took it.
C7_Witness ==
    /\ op = "workflow"
    /\ ExecutionReturned
    /\ execution_result.status = "SUCCESS"
    /\ Len(submit_calls) = 1
    /\ submit_calls[1].side = "buy"
    /\ submit_calls[1].quantity = 35

\* The last call appended an EXECUTION_RESULT entry.
ExecutionLogged ==
    \E i \in 1..Len(NewEntries) :
        NewEntries[i].message_type = "EXECUTION_RESULT"

\* C8 as the specification states it - the workflow calls
\* execute_approved_trade and appends the EXECUTION_RESULT entry only if the
\* decision is approved, the signal is not HOLD and the position size is
\* above 0; in every other case the execution result stays SKIPPED and no
\* execution entry is appended.
C8_HandOffOnlyWithSize ==
    (WorkflowReturned /\ result.kind = "completed") =>
        IF /\ decision.approved
           /\ market_analysis.signal # "HOLD"
           /\ decision.position_size > 0
        THEN TRUE
        ELSE execution_result.status = "SKIPPED" /\ ~ExecutionLogged

\* C8 - The workflow calls execute_approved_trade and appends the
\* EXECUTION_RESULT entry exactly when the decision is approved, which it is
\* for no HOLD signal; an approved decision of position size 0 is handed
\* over too, comes back as NO_ACTION and is logged; when the decision is not
\* approved the execution result stays SKIPPED and no execution entry is
\* appended.
C8_HandOffWhenApproved ==
    (WorkflowReturned /\ result.kind = "completed") =>
        /\ decision.approved <=> ExecutionAttempted
        /\ decision.approved <=> ExecutionLogged
        /\ decision.approved => market_analysis.signal # "HOLD"
        /\ (decision.approved /\ decision.position_size <= 0) =>
               execution_result.status = "NO_ACTION"
        /\ ~decision.approved => execution_result.status = "SKIPPED"

\* An approved decision of size 0 was handed over, came back as NO_ACTION
\* and was logged.
C8_Witness ==
    /\ WorkflowReturned
    /\ result.kind = "completed"
    /\ decision.approved
    /\ decision.position_size = 0
    /\ execution_result.status = "NO_ACTION"
    /\ ExecutionLogged
    /\ submit_calls = <<>>

\* C10 - Portfolio fallback: when fetching the positions or the account
\* fails, at whichever point, the agent is left with cash and portfolio
\* value equal to initial_capital and no positions, never a mix of fetched
\* and fallback fields, and the evaluation goes on to the sizing and the
\* risk assessment instead of returning an error, and from there, for a
\* signal other than HOLD with a confidence in [0, 1], to the arbitration,
\* whose verdict is the decision.
C10_PortfolioFallback ==
    fetch = "fallback" =>
        /\ cash = initial_capital
        /\ portfolio_value = initial_capital
        /\ positions = <<>>
        /\ position_analysis.method \in
               {"HOLD", "KELLY_VOLATILITY_CONFIDENCE"}
        /\ risk_assessment.status = "OK"
        /\ risk_assessment.available_cash = initial_capital
        /\ risk_assessment.sufficient_cash
        /\ (market_analysis.signal # "HOLD"
              /\ market_analysis.confidence \in 0..100) =>
               /\ ~AutoRejectCondition
               /\ decision.action \in {"NONE", "APPROVE", "REJECT"}
               /\ decision.rejection_reasons = NoReasons
               /\ result.kind = "completed" =>
                      decision.action \in {"APPROVE", "REJECT"}

\* After a failed fetch a BUY reached the arbitration.
C10_Witness ==
    /\ fetch = "fallback"
    /\ pc = "arbitrating"
    /\ market_analysis.signal = "BUY"
    /\ cash = initial_capital
    /\ positions = <<>>

-----------------------------------------------------------------------------

\* scan_watchlist_with_risk_assessment has returned its list.
ScanReturned == op = "scan" /\ pc = "idle"

\* While the scan runs, the symbol in hand is the one at the place of the
\* iteration and there is one result for every symbol before it; the list
\* returned has one result for every symbol; and a result that names a
\* symbol names the one at its place.
C9_OnePerSymbol ==
    /\ scan_active =>
         /\ scan_idx \in 1..Len(Watchlist)
         /\ cur_symbol = Watchlist[scan_idx]
         /\ Len(results) = IF pc = "sleeping" THEN scan_idx ELSE scan_idx - 1
    /\ ScanReturned => Len(results) = Len(Watchlist)
    /\ (scan_active \/ ScanReturned) =>
         \A i \in 1..Len(results) :
             /\ results[i].kind \in {"error", "completed", "exception"}
             /\ results[i].kind # "error" => results[i].symbol = Watchlist[i]
             /\ results[i].kind = "error" => results[i].symbol = "N/A"

\* C9 - Scan totality and isolation: whatever fails for whichever symbol (the
\* market analysis, the risk evaluation, or a raised exception), the scan
\* reaches its return with exactly one result per symbol of the watchlist, in
\* the order of the watchlist; a failure for one symbol is one result and the
\* scan goes on with the next symbol.
C9_ScanTotality ==
    /\ []C9_OnePerSymbol
    /\ scan_active ~> ScanReturned

\* A scan returned after an exception for the first symbol and a completed
\* assessment of the second.
C9_Witness ==
    /\ ScanReturned
    /\ Len(results) >= 2
    /\ results[1].kind = "exception"
    /\ results[2].kind = "completed"
    /\ results[2].symbol = Watchlist[2]

-----------------------------------------------------------------------------

\* What evaluate_trade_signal returns of the sizing and of the assessment of
\* the analysis m when the books it works from are snap.
EvaluationOn(symbol, m, snap) ==
    LET pa == CalculatePositionSize(m.signal, m.confidence, m.price,
                  m.price_change_pct, snap.portfolio_value)
    IN  [position_analysis |-> pa,
         risk_assessment |-> AssessPortfolioRisk(symbol, pa, snap.cash,
                                 snap.portfolio_value, snap.positions)]

\* C11 - Degraded mode is observable: what an evaluation returns after the
\* fetch of the portfolio failed differs from what it returns for the same
\* signal after any fetch that succeeded, whatever books were fetched, those
\* equal to the mock data included.
C11_DegradedModeObservable ==
    (Evaluating /\ fetch = "fallback" /\ risk_assessment.status = "OK") =>
        \A b \in BrokerOutcomes :
            b.kind = "ok" =>
                EvaluationOn(cur_symbol, market_analysis, b.snap) #
                    [position_analysis |-> position_analysis,
                     risk_assessment |-> risk_assessment]

\* C12 - Arbitration failure is a non-approval default: once a signal other
\* than HOLD has passed the automatic rejection and the arbitration opinion
\* is awaited, the evaluation ends with a decision whether the opinion
\* arrives or the call for it fails: APPROVE or REJECT, never an error
\* result without a decision, and with a REJECT no order is submitted.
C12_ArbitrationFailureRejects ==
    [][pc = "arbitrating" =>
          /\ decision'.action \in {"APPROVE", "REJECT"}
          /\ result'.kind # "error"
          /\ decision'.action = "REJECT" =>
                 (~decision'.approved /\ submit_calls' = submit_calls)]_vars

-----------------------------------------------------------------------------

\* The analysis handed to the risk agent lacks its symbol or its price.
NoSymbolOrPrice ==
    /\ Evaluating
    /\ market_analysis.status = "ok"
    /\ cur_symbol = "" \/ market_analysis.price = 0

\* It has both and lacks its signal.
NoSignal ==
    /\ Evaluating
    /\ market_analysis.status = "ok"
    /\ ~(cur_symbol = "" \/ market_analysis.price = 0)
    /\ "signal" \in market_analysis.absent

\* The evaluation returned the error of the risk evaluation at once: nothing
\* was fetched, sized, assessed, decided or executed, and the log gained the
\* TRADING_SIGNAL entry only.
ShortCircuited ==
    /\ pc \in {"idle", "sleeping"}
    /\ result = ErrorResult("risk")
    /\ fetch = "none"
    /\ position_analysis = NoSizing
    /\ risk_assessment = NoValue
    /\ decision = NoDecision
    /\ execution_result = NoValue
    /\ EntryTypes(NewEntries) = <<"TRADING_SIGNAL">>

\* C13 as the specification states it - when the signal handed to the risk
\* stage lacks its symbol, its price or its signal action, the evaluation
\* returns an error result at once, with no sizing, assessment, arbitration
\* or execution and no log entry beyond the TRADING_SIGNAL one.
C13_MissingInputIsError == (NoSymbolOrPrice \/ NoSignal) => ShortCircuited

\* C13 - Input errors short-circuit: when the signal handed to the risk
\* stage lacks its symbol or its price, the evaluation returns an error
\* result at once, with no fetch, sizing, assessment, arbitration or
\* execution and no log entry beyond the TRADING_SIGNAL one; a signal that
\* lacks its action is read as HOLD and evaluated as a HOLD signal is: sized
\* at 0 shares, never arbitrated or executed, and decided HOLD.
C13_InputErrorsShortCircuit ==
    /\ NoSymbolOrPrice => ShortCircuited
    /\ NoSignal =>
          /\ market_analysis.signal = "HOLD"
          /\ fetch # "none"
          /\ position_analysis.method \in {"NONE", "HOLD"}
          /\ pc \notin {"arbitrating", "exec_analysis"}
          /\ decision \in {NoDecision, HoldDecision}
          /\ execution_result.status \in {"NONE", "SKIPPED"}
          /\ result.kind = "completed" =>
                 /\ decision = HoldDecision
                 /\ EntryTypes(NewEntries) =
                        <<"TRADING_SIGNAL", "RISK_DECISION">>

\* A workflow on the empty symbol returned the error of the risk evaluation.
C13_Witness ==
    /\ op = "workflow"
    /\ NoSymbolOrPrice
    /\ cur_symbol = ""
    /\ market_analysis.price > 0
    /\ ShortCircuited

-----------------------------------------------------------------------------

\* execute_approved_trade did not place the order or the order failed.
ExecutionFailed == execution_result.status \in {"FAILED", "ERROR", "NO_ACTION"}

C14_Recorded ==
    (WorkflowReturned /\ result.kind = "completed" /\ ExecutionFailed) =>
        /\ result.final_status = execution_result.status
        /\ decision.action = "APPROVE"
        /\ decision.approved
        /\ result.action = decision.action
        /\ result.approved = decision.approved
        /\ result.position_size = decision.position_size
        /\ result.dollar_amount = decision.dollar_amount

C14_Kept == (op = "workflow" /\ pc = "exec_analysis") => decision' = decision

\* C14 - Execution failure leaves the decision unchanged: when
\* execute_approved_trade returns FAILED, ERROR or NO_ACTION for an approved
\* decision, the workflow result holds that status as its final status and
\* the decision in it is still APPROVE and approved, the one made before the
\* execution was attempted; the step in which the execution returns does
\* not change the decision.
C14_DecisionUnchanged ==
    /\ []C14_Recorded
    /\ [][C14_Kept]_vars

\* The workflow returned ERROR for an order the brokerage took, the decision
\* being approved.
C14_Witness ==
    /\ WorkflowReturned
    /\ result.kind = "completed"
    /\ execution_result.status = "ERROR"
    /\ result.final_status = "ERROR"
    /\ result.action = "APPROVE"
    /\ decision.approved
    /\ Len(submit_calls) = 1

-----------------------------------------------------------------------------

\* An evaluation of the scan is between its start and its return.
InProgress == scan_active /\ pc \in {"analyzing", "advisory", "arbitrating"}

\* The evaluation in progress is that of the symbol at scan_idx, and every
\* symbol before it has its result.
C15_OneInProgress ==
    InProgress =>
        /\ cur_symbol = Watchlist[scan_idx]
        /\ Len(results) = scan_idx - 1

\* The step that starts the evaluation of the next symbol: the one before
\* has returned and its result is in the list (or it raised, and the step
\* appends the error result), and nothing of the new one is there yet.
C15_StartsAfterReturn ==
    (scan_active /\ scan_active' /\ scan_idx' # scan_idx) =>
        /\ scan_idx' = scan_idx + 1
        /\ pc' = "analyzing"
        /\ cur_symbol' = Watchlist[scan_idx']
        /\ Len(results') = scan_idx
        /\ IF pc = "sleeping"
           THEN results' = results /\ result = results[scan_idx]
           ELSE results' = Append(results, ExceptionResult(cur_symbol))
        /\ fetch' = "none"
        /\ market_analysis' = NoValue
        /\ position_analysis' = NoSizing
        /\ risk_assessment' = NoValue
        /\ decision' = NoDecision

\* C15 - The evaluations of a scan are serialized: the evaluation of the
\* next symbol (its fetch, sizing, assessment and arbitration) starts only
\* after the evaluation of the symbol before it has finished and its result
\* has been appended, so that one evaluation of the scan at most is in
\* progress at any time.
C15_ScanSerialized ==
    /\ []C15_OneInProgress
    /\ [][C15_StartsAfterReturn]_vars

\* The evaluation of the second symbol is in progress, at its arbitration,
\* after the first was evaluated to the end.
C15_Witness ==
    /\ InProgress
    /\ scan_idx = 2
    /\ pc = "arbitrating"
    /\ Len(results) = 1
    /\ results[1].kind = "completed"
    /\ results[1].symbol = Watchlist[1]

-----------------------------------------------------------------------------

\* The fixture of test_execution.py has been sized: a BUY at the confidence
\* 0.75 and the price 213.55 after a change of 1.2 percent, for a portfolio
\* value of 100000.
FixtureSized ==
    /\ pc = "sized"
    /\ market_analysis.signal = "BUY"
    /\ market_analysis.confidence = 75
    /\ market_analysis.price = 21355
    /\ market_analysis.price_change_pct = 12
    /\ portfolio_value = 10000000

\* The float next above a, of the same exponent.
FlNextUp(a) == [a EXCEPT !.m = NAdd(a.m, <<1>>)]

\* What the fixture yields apart from the confidence and optimal fractions:
\* a kelly fraction of 0.25, a volatility fraction of 0.02 / 0.012, between
\* 1.666 and 1.667, 35 shares, 7474.25 dollars and 0.0747425 of the
\* portfolio.
FixtureRest ==
    /\ position_analysis.kelly_fraction = FlDec(25, 100)
    /\ position_analysis.volatility_fraction =
           FlDiv(FlDec(2, 100), FlDec(12, 1000))
    /\ FlLess(FlDec(1666, 1000), position_analysis.volatility_fraction)
    /\ FlLess(position_analysis.volatility_fraction, FlDec(1667, 1000))
    /\ position_analysis.shares = 35
    /\ position_analysis.dollar_amount = FlDec(747425, 100)
    /\ position_analysis.portfolio_percentage = FlDec(747425, 10000000)

\* C16 as the specification states it - the fixture yields a confidence
\* fraction and an optimal fraction of 0.075, with a kelly fraction of 0.25,
\* a volatility fraction of about 1.667, 35 shares, 7474.25 dollars and
\* about 0.0747 of the portfolio.
C16_FixtureExact ==
    FixtureSized =>
        /\ FixtureRest
        /\ position_analysis.confidence_fraction = FlDec(75, 1000)
        /\ position_analysis.optimal_fraction = FlDec(75, 1000)

\* C16 - Known fixture: for a BUY at the confidence 0.75, the price 213.55,
\* a price change of 1.2 percent and a portfolio value of 100000, the
\* sizing yields a kelly fraction of 0.25, a volatility fraction of
\* 0.02 / 0.012 (about 1.667), 35 shares, 7474.25 dollars and 0.0747425 of
\* the portfolio; the confidence fraction and the optimal fraction are the
\* float product 0.75 * 0.1, which is 0.07500000000000001, the float next
\* above 0.075.
C16_KnownFixture ==
    FixtureSized =>
        /\ FixtureRest
        /\ position_analysis.confidence_fraction = FlNextUp(FlDec(75, 1000))
        /\ position_analysis.optimal_fraction =
               position_analysis.confidence_fraction

\* The fixture was sized at 35 shares.
C16_Witness == FixtureSized /\ position_analysis.shares = 35

-----------------------------------------------------------------------------
(* C17: how the arbitration opinion is read *)

\* The verdict token of an opinion: its first word.
VerdictToken(text) ==
    LET spaces == {i \in 1..Len(text) : text[i] = " "}
        first == IF spaces = {} THEN Len(text) + 1
                 ELSE CHOOSE i \in spaces : \A j \in spaces : i <= j
    IN  SubSeq(text, 1, first - 1)

\* A decision parsed from an arbitration opinion quotes the opinion.
Arbitrated == Evaluating /\ decision.reasoning # NoOpinion

\* C17: the decision parsed from an arbitration opinion is APPROVE, approved,
\* exactly when the opinion's verdict token is APPROVE (in any case of the
\* letters), and REJECT, not approved, otherwise: also when the verdict token
\* is REJECT and the rationale after it contains the word APPROVE.
C17_VerdictParsing ==
    Arbitrated =>
        LET approve == Upper(VerdictToken(decision.reasoning))
                           = <<"A", "P", "P", "R", "O", "V", "E">>
        IN  /\ decision.approved <=> approve
            /\ decision.action = IF approve THEN "APPROVE" ELSE "REJECT"

-----------------------------------------------------------------------------
(* C18: the reasons of an automatic rejection *)

\* The place of a reason in the fixed order.
ReasonRank(reason) ==
    CASE reason = "Insufficient cash" -> 1
      [] reason = "Position concentration limit exceeded" -> 2
      [] reason = "Risk score too high" -> 3
      [] OTHER -> 0

\* The reasons given by the decision.
GivenReasons ==
    {decision.rejection_reasons[i] : i \in DOMAIN decision.rejection_reasons}

\* A decision was made on a completed assessment of a BUY or SELL signal.
DecidedOnAssessment ==
    /\ Evaluating
    /\ risk_assessment.status = "OK"
    /\ market_analysis.signal # "HOLD"
    /\ decision # NoDecision

\* C18: for a non-HOLD signal with at least one automatic criterion met, the
\* decision is REJECT, not approved, and its reasons name every criterion that
\* is met and none that is not, in the order insufficient cash, concentration
\* breach, risk score above 0.8; so insufficient cash alone forces REJECT.
C18_ReasonsCompleteOrdered ==
    LET ra == risk_assessment
        reasons == decision.rejection_reasons
    IN  (/\ DecidedOnAssessment
         /\ \/ ~ra.sufficient_cash
            \/ ra.concentration_risk
            \/ ra.risk_score.n * 10 > 8 * ra.risk_score.d)
        => /\ decision.action = "REJECT"
           /\ ~decision.approved
           /\ ("Insufficient cash" \in GivenReasons) <=> ~ra.sufficient_cash
           /\ ("Position concentration limit exceeded" \in GivenReasons)
                  <=> ra.concentration_risk
           /\ ("Risk score too high" \in GivenReasons)
                  <=> ra.risk_score.n * 10 > 8 * ra.risk_score.d
           /\ \A i \in DOMAIN reasons : ReasonRank(reasons[i]) > 0
           /\ \A i, j \in DOMAIN reasons :
                  i < j => ReasonRank(reasons[i]) < ReasonRank(reasons[j])

\* A rejection for all three criteria at once.
C18_Witness ==
    /\ DecidedOnAssessment
    /\ decision.action = "REJECT"
    /\ Len(decision.rejection_reasons) = 3

-----------------------------------------------------------------------------
(* C19: the order of the stages of one evaluation *)

\* The signal was obtained and passed the check of the input.
SignalObtained ==
    /\ market_analysis.status = "ok"
    /\ cur_symbol # ""
    /\ market_analysis.price # 0

Fetched == fetch # "none"

\* The sizing produced its output.
SizingDone == position_analysis # NoSizing

Assessed == risk_assessment.status = "OK"

\* Sizing, assessment and arbitration each work on the output of the stage
\* before: the sizing on the fetched portfolio value, the assessment on the
\* sized amount and the fetched cash, the arbitration on both.
StagesInOrder ==
    Evaluating =>
        /\ SizingDone =>
               /\ Fetched
               /\ \/ position_analysis.method = "HOLD"
                  \/ /\ portfolio_value # 0
                     /\ position_analysis.portfolio_percentage
                        = Frac(position_analysis.dollar_amount,
                               portfolio_value)
        /\ Assessed =>
               /\ SizingDone
               /\ risk_assessment.cash_needed = position_analysis.dollar_amount
               /\ risk_assessment.available_cash = cash
        /\ (pc = "arbitrating" \/ decision # NoDecision) => Assessed
        /\ decision.reasoning # NoOpinion =>
               /\ decision.position_size = position_analysis.shares
               /\ decision.dollar_amount = position_analysis.dollar_amount
               /\ decision.risk_level = risk_assessment.risk_level

\* A stage starts from the one before it and from no other.
StageSteps ==
    /\ (pc' = "analyzing" /\ pc # "analyzing") => pc \in {"idle", "sleeping"}
    /\ (pc' = "advisory" /\ pc # "advisory") =>
           pc = "analyzing" /\ SizingDone' /\ Assessed'
    /\ (pc' = "arbitrating" /\ pc # "arbitrating") => pc = "advisory"

\* The snapshot is fetched while the signal is still awaited.
SnapshotBeforeSignal ==
    (Evaluating /\ pc = "analyzing" /\ pc' # "analyzing") => Fetched

\* The snapshot is fetched by the step that obtains the signal, after the
\* signal passed the check of the input, and by no other.
SnapshotAfterSignal ==
    /\ (Evaluating /\ pc = "analyzing") => ~Fetched
    /\ (Evaluating' /\ Fetched') => SignalObtained'
    /\ (Evaluating' /\ Fetched' /\ ~Fetched) => pc = "analyzing"

\* C19 as stated: in every evaluation of one symbol the portfolio snapshot is
\* fetched first, before the signal is obtained, and then sizing, risk
\* assessment and arbitration run strictly in that order, each on the output
\* of the stage before.
C19_SnapshotFirst ==
    []StagesInOrder /\ [][StageSteps /\ SnapshotBeforeSignal]_vars

\* C19: in every evaluation of one symbol the signal is obtained first, then
\* the portfolio snapshot is fetched, and then sizing, risk assessment and
\* arbitration run strictly in that order, each one starting only after the
\* stage before it has produced its output.
C19_StageOrder ==
    []StagesInOrder /\ [][StageSteps /\ SnapshotAfterSignal]_vars

\* An evaluation went through every stage up to an arbitrated decision on a
\* sized position.
C19_Witness ==
    /\ Evaluating
    /\ Fetched
    /\ decision.reasoning # NoOpinion
    /\ position_analysis.shares > 0

-----------------------------------------------------------------------------
(* C20: the snapshot of one evaluation under interleaving *)

\* Call i returned an evaluation, which holds a risk assessment.
ReturnedAssessment(i) ==
    /\ i \in DOMAIN calls
    /\ calls[i].returned = "evaluation"

\* C20: when two evaluate_trade_signal calls on the one RiskAgent interleave
\* at their awaits, each returned risk assessment reports the one snapshot it
\* was computed from: sufficient_cash = (cash_needed <= available_cash).
C20_SnapshotReadOnly ==
    \A i \in CallIds :
        ReturnedAssessment(i) =>
            LET ra == calls[i].risk_assessment
            IN  ra.sufficient_cash <=> ra.cash_needed <= ra.available_cash

-----------------------------------------------------------------------------
(* C21: the risk score and the risk level *)

\* The scores of 0 to 4 factors out of 4.
ScoreValues == {Frac(0, 1), Frac(1, 4), Frac(1, 2), Frac(3, 4), Frac(1, 1)}

\* C21: in every risk assessment risk_score is the number of risk factors
\* over 4, one of 0, 0.25, 0.5, 0.75 and 1, and risk_level is HIGH with 3 or 4
\* factors, MEDIUM with 2 and LOW with 0 or 1.
C21_ScoreAndLevel ==
    (Evaluating /\ Assessed) =>
        LET ra == risk_assessment
            n == Len(ra.risk_factors)
        IN  /\ ra.risk_score.n * 4 = n * ra.risk_score.d
            /\ ra.risk_score \in ScoreValues
            /\ ra.risk_level = CASE n >= 3 -> "HIGH"
                                  [] n = 2 -> "MEDIUM"
                                  [] OTHER -> "LOW"
            /\ ra.risk_level = "HIGH" <=> ra.risk_score.n * 10 > 6 * ra.risk_score.d
            /\ ra.risk_level = "LOW" <=> ra.risk_score.n * 10 <= 3 * ra.risk_score.d

\* An assessment with two factors, of level MEDIUM.
C21_Witness ==
    /\ Evaluating
    /\ Assessed
    /\ Len(risk_assessment.risk_factors) = 2
    /\ risk_assessment.risk_level = "MEDIUM"

-----------------------------------------------------------------------------
(* C22: the risk flags *)

\* How often flag occurs among the risk factors.
Occurrences(flag) ==
    Cardinality({i \in DOMAIN risk_assessment.risk_factors :
                    risk_assessment.risk_factors[i] = flag})

FlagNames ==
    {"position_concentration", "portfolio_risk_limit", "insufficient_cash",
     "high_portfolio_utilization"}

\* |current position value| + |new position value|, in cents.
TotalPositionValue ==
    Abs(IF cur_symbol \in DOMAIN positions THEN positions[cur_symbol] ELSE 0)
    + Abs(position_analysis.dollar_amount)

RECURSIVE SumAbs(_)
SumAbs(syms) ==
    IF syms = {} THEN 0
    ELSE LET s == CHOOSE x \in syms : TRUE
         IN  Abs(positions[s]) + SumAbs(syms \ {s})

\* The sum of |market_value| over all open positions, in cents.
OpenPositionsValue == SumAbs(DOMAIN positions)

\* The assessment was made.
AssessmentMade == pc \in {"assessed", "decided"} /\ Assessed

\* C22: in every risk assessment each of the four flags is among the risk
\* factors exactly once when its condition holds and not at all when it does
\* not: total position value / portfolio value > max_position_size, portfolio
\* percentage > max_portfolio_risk, new position value > available cash, open
\* positions / portfolio value > 0.8; every comparison is strict.
C22_RiskFlags ==
    AssessmentMade =>
        LET pct == position_analysis.portfolio_percentage
            One(b) == IF b THEN 1 ELSE 0
        IN  /\ \A i \in DOMAIN risk_assessment.risk_factors :
                   risk_assessment.risk_factors[i] \in FlagNames
            /\ risk_assessment.position_concentration
                   = Frac(TotalPositionValue, portfolio_value)
            /\ Occurrences("position_concentration")
                   = One(TotalPositionValue * 10 > portfolio_value)
            /\ Occurrences("portfolio_risk_limit")
                   = One(pct.n * 100 > 2 * pct.d)
            /\ Occurrences("insufficient_cash")
                   = One(position_analysis.dollar_amount > cash)
            /\ risk_assessment.sufficient_cash
                   <=> position_analysis.dollar_amount <= cash
            /\ Occurrences("high_portfolio_utilization")
                   = One(OpenPositionsValue * 10 > portfolio_value * 8)

\* An assessment with every value exactly at its limit, and no flag.
C22_Witness ==
    /\ AssessmentMade
    /\ position_analysis.dollar_amount > 0
    /\ TotalPositionValue * 10 = portfolio_value
    /\ position_analysis.portfolio_percentage = max_portfolio_risk
    /\ position_analysis.dollar_amount = cash
    /\ OpenPositionsValue * 10 = portfolio_value * 8
    /\ risk_assessment.risk_factors = <<>>

-----------------------------------------------------------------------------
(* C23: the advisory opinion and the numbers of the assessment *)

NumericFields ==
    {"position_concentration", "concentration_risk", "portfolio_risk_breach",
     "sufficient_cash", "portfolio_utilization", "risk_factors", "risk_score",
     "risk_level"}

\* The automatic rejection predicates that fire on assessment ra.
FiringPredicates(ra) ==
    (IF ~ra.sufficient_cash THEN {"Insufficient cash"} ELSE {})
    \cup (IF ra.concentration_risk
          THEN {"Position concentration limit exceeded"} ELSE {})
    \cup (IF ra.risk_score.n * 10 > 8 * ra.risk_score.d
          THEN {"Risk score too high"} ELSE {})

\* The advisory opinion arrives.
OpinionArrives == pc = "assessed" /\ pc' = "decided"

\* C23: whatever the text of the advisory opinion, the numeric fields of the
\* returned assessment and the automatic rejection predicates that fire are
\* those fixed by the signal, the sizing, the portfolio and the limits before
\* the opinion was asked for; so two evaluations that differ in that text
\* only agree on them.
C23_OpinionNonInterference ==
    [][OpinionArrives =>
          /\ \A f \in NumericFields : risk_assessment'[f] = risk_assessment[f]
          /\ FiringPredicates(risk_assessment')
                 = FiringPredicates(risk_assessment)
          /\ market_analysis.signal # "HOLD" =>
                 /\ decision'.action = "REJECT"
                        <=> FiringPredicates(risk_assessment) # {}
                 /\ decision'.action = "REJECT" =>
                        {decision'.rejection_reasons[i] :
                            i \in DOMAIN decision'.rejection_reasons}
                        = FiringPredicates(risk_assessment)]_vars

\* The advisory opinion was REJECT and no predicate fired.
C23_Witness ==
    /\ pc = "decided"
    /\ market_analysis.signal = "BUY"
    /\ risk_assessment.ai_assessment = <<"R", "E", "J", "E", "C", "T">>
    /\ FiringPredicates(risk_assessment) = {}
    /\ decision.action = "ARBITRATE"

-----------------------------------------------------------------------------
(* C24: the ranges of the sizing result *)

\* C24: for every non-HOLD signal that evaluate_trade_signal accepts and
\* sizes, kelly_fraction is in [0, 0.25], confidence_fraction is in
\* [0, max_position_size], optimal_fraction is at least 0 and shares is an
\* integer that is at least 0.
C24_SizingRanges ==
    (Evaluating /\ position_analysis.method = "KELLY_VOLATILITY_CONFIDENCE") =>
        /\ FLeq(Frac(0, 1), position_analysis.kelly_fraction)
        /\ FLeq(position_analysis.kelly_fraction, Frac(25, 100))
        /\ FLeq(Frac(0, 1), position_analysis.confidence_fraction)
        /\ FLeq(position_analysis.confidence_fraction, max_position_size)
        /\ FLeq(Frac(0, 1), position_analysis.optimal_fraction)
        /\ position_analysis.shares \in Nat

-----------------------------------------------------------------------------
(* C25: the inputs the sizing is invoked on *)

\* _calculate_position_size was invoked in the running or last evaluation:
\* evaluate_trade_signal invokes it as soon as the refresh of the portfolio
\* has returned, and the refresh raises nothing.
SizingInvoked == Evaluating /\ Fetched

\* C25: evaluate_trade_signal never invokes _calculate_position_size with a
\* price or a portfolio value that is not positive: it returns an error for
\* such an input before the sizing.
C25_SizingPreconditions ==
    SizingInvoked => (market_analysis.price > 0 /\ portfolio_value > 0)

-----------------------------------------------------------------------------
(* C26: the shape of a decision *)

\* _make_risk_decision returned a decision to the running or last evaluation.
DecisionReturned == Evaluating /\ decision # NoDecision

\* C26: every decision _make_risk_decision returns has an action among
\* APPROVE, REJECT and HOLD and is approved exactly when the action is
\* APPROVE; an APPROVE carries the shares, dollar amount and portfolio
\* percentage of the sizing result and the risk level of the assessment.
C26_DecisionWellFormed ==
    DecisionReturned =>
        /\ decision.action \in {"APPROVE", "REJECT", "HOLD"}
        /\ decision.approved \in BOOLEAN
        /\ decision.approved <=> decision.action = "APPROVE"
        /\ decision.action = "APPROVE" =>
               /\ decision.position_size = position_analysis.shares
               /\ decision.dollar_amount = position_analysis.dollar_amount
               /\ decision.portfolio_percentage
                      = position_analysis.portfolio_percentage
               /\ decision.risk_level = risk_assessment.risk_level

\* An approval of a sized position.
C26_Witness ==
    /\ DecisionReturned
    /\ decision.action = "APPROVE"
    /\ decision.position_size > 0
    /\ risk_assessment.risk_level = "LOW"

-----------------------------------------------------------------------------
(* C27: the risk score among the automatic rejection criteria *)

ScoreTooHigh ==
    risk_assessment.risk_score.n * 10 > 8 * risk_assessment.risk_score.d

\* What _make_risk_decision would decide without its third criterion.
WithoutScoreCriterion ==
    LET reasons ==
            (IF ~risk_assessment.sufficient_cash
             THEN <<"Insufficient cash">> ELSE <<>>)
            \o (IF risk_assessment.concentration_risk
                THEN <<"Position concentration limit exceeded">> ELSE <<>>)
    IN  IF market_analysis.signal = "HOLD" THEN HoldDecision
        ELSE IF reasons # <<>>
             THEN [action |-> "REJECT", approved |-> FALSE,
                   rejection_reasons |-> reasons, position_size |-> 0,
                   dollar_amount |-> 0, portfolio_percentage |-> Frac(0, 1),
                   risk_level |-> "NONE", reasoning |-> NoOpinion]
             ELSE [action |-> "ARBITRATE"]

\* The risk score is above 0.8 only with all four factors, so with
\* insufficient cash and a concentration breach, and is never the one reason
\* of a rejection.
ScoreNeverAlone ==
    /\ AssessmentMade =>
           (ScoreTooHigh =>
               /\ Len(risk_assessment.risk_factors) = 4
               /\ ~risk_assessment.sufficient_cash
               /\ risk_assessment.concentration_risk)
    /\ pc = "decided" =>
           (decision.action = "REJECT" =>
               decision.rejection_reasons # <<"Risk score too high">>)

\* C27 as stated: the risk score criterion never fires alone, and without it
\* every decision would be the same.
C27_ScoreRedundant ==
    /\ ScoreNeverAlone
    /\ pc = "decided" => decision = WithoutScoreCriterion

\* C27: the risk score criterion never fires alone, and without it every
\* decision would have the same action and approval; the rejection for all
\* three criteria would lose its third reason.
C27_ScoreNeverDecides ==
    /\ ScoreNeverAlone
    /\ pc = "decided" =>
           /\ decision.action = WithoutScoreCriterion.action
           /\ decision.action # "ARBITRATE" =>
                  decision.approved = WithoutScoreCriterion.approved
           /\ ~ScoreTooHigh => decision = WithoutScoreCriterion

\* A rejection for all three criteria, on four risk factors.
C27_Witness ==
    /\ pc = "decided"
    /\ ScoreTooHigh
    /\ Len(risk_assessment.risk_factors) = 4
    /\ Len(decision.rejection_reasons) = 3

-----------------------------------------------------------------------------
(* C28: the concentration of a freshly sized position *)

\* (|current position value| + |new position value|) / portfolio_value of the
\* sized position, the symbol having no position.
FreshConcentration ==
    FlDiv(FlAdd(FlAbs(FlZero), FlAbs(position_analysis.dollar_amount)),
          FlDec(portfolio_value, 100))

\* C28: for a non-HOLD signal with a confidence in [0, 1] and a price above 0
\* on a symbol with no position, position_concentration = shares x price /
\* portfolio_value <= optimal_fraction <= confidence x max_position_size
\* <= max_position_size, so there is no concentration risk.
C28_FreshPositionWithinLimit ==
    (Sized /\ ValidSizingInput /\ cur_symbol \notin DOMAIN positions) =>
        /\ FlLeq(FreshConcentration, position_analysis.optimal_fraction)
        /\ FlLeq(position_analysis.optimal_fraction,
                 FlMul(FlDec(market_analysis.confidence, 100), FlDec(1, 10)))
        /\ FlLeq(FlMul(FlDec(market_analysis.confidence, 100), FlDec(1, 10)),
                 FlDec(1, 10))
        /\ ~FlLess(FlDec(1, 10), FreshConcentration)

-----------------------------------------------------------------------------
(* C29: the side of a submitted order *)

\* C29: every order execute_approved_trade submits is a buy exactly when the
\* original signal is BUY and a sell exactly when it is SELL, and no order is
\* submitted for another signal.
C29_SideMatchesSignal ==
    \A i \in DOMAIN submit_calls :
        /\ submit_calls[i].context.original_signal \in {"BUY", "SELL"}
        /\ submit_calls[i].side = "buy"
               <=> submit_calls[i].context.original_signal = "BUY"
        /\ submit_calls[i].side = "sell"
               <=> submit_calls[i].context.original_signal = "SELL"

-----------------------------------------------------------------------------
(* C30: the cash approved over one scan *)

RECURSIVE ApprovedAmount(_)
\* The sum of dollar_amount over the approved decisions among rs.
ApprovedAmount(rs) ==
    IF rs = <<>> THEN 0
    ELSE (IF Head(rs).approved THEN Head(rs).dollar_amount ELSE 0)
         + ApprovedAmount(Tail(rs))

\* Every symbol scanned so far was approved, and the brokerage reported the
\* same cash for each.
SameCashApproved ==
    /\ results # <<>>
    /\ \A i \in DOMAIN results :
          /\ results[i].approved
          /\ results[i].available_cash = results[1].available_cash

\* C30: over one scan in which the brokerage reports the same cash for every
\* symbol, the sum of dollar_amount over the approved decisions never exceeds
\* that cash.
C30_NoDoubleSpend ==
    SameCashApproved => ApprovedAmount(results) <= results[1].available_cash

====
